---------------------------- MODULE Spec2Model ----------------------------
(***************************************************************************)
(* Sync controllers of the Google connectors: the control surface          *)
(* (start / pause / resume / stop / initialize), the background sync task  *)
(* (perform_initial_sync with its batch loop, process_batch and the event  *)
(* emission) and the persisted per-user sync state.                        *)
(*                                                                         *)
(* Every coroutine is cut at its await points: one action runs a coroutine *)
(* from the await it is suspended in (the awaited call's effect included)  *)
(* to the next await.  svc selects the concrete controller:                *)
(*   "gmail" : BaseGmailSyncService + GmailSyncIndividualService           *)
(*   "drive" : BaseDriveSyncService + DriveSyncIndividualService           *)
(***************************************************************************)
EXTENDS Integers, Sequences, FiniteSets, TLC

\* ------------------------------------------------------------------ bounds
NItems == 3          \* threads of the mailbox / files over all drives
BatchSize == 2       \* batch_size (50 in the source), scaled down
NUsers == 2          \* users of the organisation seen by the drive controller
NSlots == 2          \* sync tasks that can be alive at the same time
MaxCalls == 2        \* control calls made over one behaviour
MaxFaults == 1       \* collaborator failures over one behaviour
MaxEvents == 3       \* control calls and failures together over one behaviour
NMsgs == 2           \* messages of a thread
NAtts == 1           \* attachments of a thread
MaxBatches == 2      \* process_batch calls on the graph store over one behaviour

Services == {"gmail", "drive"}
SyncStates == {"NOT_STARTED", "RUNNING", "PAUSED", "COMPLETED", "FAILED", "STOPPED"}
NoRow == "NONE"      \* get_user_sync_state returns nothing
NoKey == 0           \* get_key_by_external_message_id finds nothing
Items == 1..NItems
Users == 1..NUsers
Slots == 1..NSlots
Drives == 1..2       \* drive_workers: 'root' and one shared drive

VARIABLES
    svc,            \* which controller class is instantiated
    malformed,      \* the thread whose 'id' is falsy (0: none)
    syncState,      \* syncStates collection: user -> syncState (or NoRow)
    driveState,     \* drive -> driveSyncState
    stopRequested,  \* self._stop_requested
    syncLock,       \* self._sync_lock: 0 free, else the slot of the holder
    syncTask,       \* self._sync_task: 0 None, else a slot
    tasks,          \* slot -> the coroutine state of a sync task
    ctl,            \* the control call in progress (holds _transition_lock)
    ret,            \* the last control call that returned
    store,          \* committed rows: set of <<collection, external id>>
    driveData,      \* drive -> collections written by process_drive_data
    emitted,        \* recordIds of the envelopes sent to the bus
    calls,          \* control calls made so far
    faults,         \* collaborator failures so far
    boot,           \* the enterprise initialize call: position, users still to visit
    known,          \* users already present in the users collection
    orgExists,      \* the organizations vertex exists
    watch,          \* the watch phase of initialize: user at hand, the tokens
                    \* registered and stored, the get_changes calls made
    db,             \* the graph store: vertex and edge collections with their rows
    run,            \* the process_batch call in flight on the graph store
    last,           \* the batch of the last process_batch call that returned True,
                    \* and how many times in a row it did
    nruns,          \* process_batch calls made so far
    outcome,        \* what the last process_batch call returned, and the state of
                    \* the transaction it began
    sweep           \* a perform_initial_sync run followed from its first line to its
                    \* return: position, user at hand, where an exception was raised

vars == <<svc, malformed, syncState, driveState, stopRequested, syncLock,
          syncTask, tasks, ctl, ret, store, driveData, emitted, calls, faults,
          boot, known, orgExists, watch, db, run, last, nruns, outcome, sweep>>

\* The state of the enterprise initialize call.
entVars == <<boot, known, orgExists, watch>>

\* The state of the graph store and of the process_batch calls working on it.
batchVars == <<db, run, last, nruns, outcome>>

\* The state of the sync run that is followed on its own.
sweepVars == <<sweep>>

\* No such run is under way.
NoSweep == [pc |-> "-", kind |-> "-", u |-> 0, threads |-> <<>>, at |-> "-", res |-> "-"]

\* ------------------------------------------------------------- containers
\* The individual user of the controller (list_individual_user()[0]).
Me == 1

\* Collections written by one batch transaction, in the order of the upserts.
Ops(s) == IF s = "gmail" THEN <<"mails", "records", "permissions">>
                         ELSE <<"files", "records", "permissions">>

\* Collections written by process_drive_data, in order.
DriveOps == <<"drives", "files", "records", "userDriveRelation", "permissions">>

\* First and last item of a container: the mailbox, or drive d.
First(s, d) == IF s = "gmail" \/ d = 1 THEN 1 ELSE NItems
Last(s, d) == IF s = "gmail" \/ d = 2 THEN NItems ELSE NItems - 1

Min(a, b) == IF a < b THEN a ELSE b

\* batch = threads[i:i + batch_size]
Batch(s, d, i) == i..Min(i + BatchSize - 1, Last(s, d))

\* The items of a batch that process_batch does not skip as malformed.
WellFormed(b) == {x \in b : x # malformed}

\* The items of a batch that are not yet in the store (new rows to create).
NewItems(s, b) == {x \in WellFormed(b) : <<Ops(s)[1], x>> \notin store}

\* get_key_by_external_message_id / get_key_by_external_file_id
KeyOf(s, x) == IF <<Ops(s)[1], x>> \in store THEN x ELSE NoKey

\* sync_state.get('syncState') if sync_state else 'NOT_STARTED'
CurrentState(u) == IF syncState[u] = NoRow THEN "NOT_STARTED" ELSE syncState[u]

\* The environment may still make a control call / let a collaborator fail.
MayCall == calls < MaxCalls /\ calls + faults < MaxEvents

MayFail == faults < MaxFaults /\ calls + faults < MaxEvents

IdleTask == [status |-> "none", pc |-> "-", d |-> 0, i |-> 0, j |-> 0, k |-> 0,
             txn |-> "none", staged |-> {}, sawStop |-> FALSE, result |-> "-"]

Live(t) == tasks[t].status = "live"


\* ------------------------------------------------------------ task helpers
\* A task that returned: its locals are gone.
Finished(res) == [IdleTask EXCEPT !.status = "done", !.result = res]

\* for d in drive_workers: the between-drives stop check, or the end of the loop.
DriveHead(tk, d) ==
    IF d > 2 THEN [tk EXCEPT !.pc = "w_completed", !.d = 0, !.i = 0, !.j = 0, !.k = 0]
    ELSE IF stopRequested
         THEN [tk EXCEPT !.pc = "ss_drive", !.d = d, !.i = 0, !.j = 0, !.k = 0, !.sawStop = TRUE]
         ELSE [tk EXCEPT !.pc = "drive_state", !.d = d, !.i = 0, !.j = 0, !.k = 0]

\* for i in range(start, len, batch_size): the pre-batch stop check, or the
\* end of the loop.
BatchHead(tk, i) ==
    IF i > Last(svc, tk.d)
    THEN [tk EXCEPT !.pc = IF svc = "gmail" THEN "w_completed" ELSE "drive_done",
                    !.i = 0, !.j = 0, !.k = 0]
    ELSE IF stopRequested
         THEN [tk EXCEPT !.pc = "ss_batch", !.i = i, !.j = 0, !.k = 0, !.sawStop = TRUE]
         ELSE [tk EXCEPT !.pc = "assemble", !.i = i, !.j = 0, !.k = 0]

\* Variant of the loop's 'continue': the body goes on to the envelopes of the
\* batch at hand.
GoOnToEmit(tk) == [tk EXCEPT !.pc = "emit", !.j = tk.i]

\* The next iteration of the batch loop ('continue', or the end of the body).
NextBatch(tk) == BatchHead(tk, tk.i + BatchSize)

\* process_batch past its stop check, with the sync lock free: the transform
\* starts, or, with nothing new in the batch, process_batch returns True.
EnterBatch(tk) ==
    IF NewItems(svc, Batch(svc, tk.d, tk.i)) = {}
    THEN [tk EXCEPT !.pc = "emit", !.j = tk.i]
    ELSE [tk EXCEPT !.pc = "pb_transform"]

HoldsAfterEnter(tk, t) ==
    IF NewItems(svc, Batch(svc, tk.d, tk.i)) = {} THEN 0 ELSE t

\* ------------------------------------------------------- the sync task
\* perform_initial_sync, first stop check.
TaskBegin(t) ==
    /\ Live(t) /\ tasks[t].pc = "begin"
    /\ tasks' = [tasks EXCEPT ![t] =
                    IF stopRequested THEN [@ EXCEPT !.pc = "ss_begin", !.sawStop = TRUE]
                                     ELSE [@ EXCEPT !.pc = "set_running"]]
    /\ UNCHANGED <<svc, malformed, syncState, driveState, stopRequested, syncLock,
                   syncTask, ctl, ret, store, driveData, emitted>>
    /\ UNCHANGED <<calls, faults>>
    /\ UNCHANGED entVars
    /\ UNCHANGED batchVars
    /\ UNCHANGED sweepVars

\* update_user_sync_state(RUNNING), then the second stop check.
TaskSetRunning(t) ==
    /\ Live(t) /\ tasks[t].pc = "set_running"
    /\ syncState' = [syncState EXCEPT ![Me] = "RUNNING"]
    /\ tasks' = [tasks EXCEPT ![t] =
                    IF stopRequested THEN [@ EXCEPT !.pc = "ss_user", !.sawStop = TRUE]
                    ELSE [@ EXCEPT !.pc = IF svc = "gmail" THEN "list" ELSE "workers"]]
    /\ UNCHANGED <<svc, malformed, driveState, stopRequested, syncLock,
                   syncTask, ctl, ret, store, driveData, emitted>>
    /\ UNCHANGED <<calls, faults>>
    /\ UNCHANGED entVars
    /\ UNCHANGED batchVars
    /\ UNCHANGED sweepVars

\* _should_stop saw the flag: it persists PAUSED and the run returns False.
TaskStopObserved(t) ==
    /\ Live(t) /\ tasks[t].pc \in {"ss_begin", "ss_user", "ss_batch", "ss_drive"}
    /\ syncState' = [syncState EXCEPT ![Me] = "PAUSED"]
    /\ driveState' = IF svc = "drive" /\ tasks[t].pc \in {"ss_batch", "ss_drive"}
                     THEN [driveState EXCEPT ![tasks[t].d] = "PAUSED"]
                     ELSE driveState
    /\ tasks' = [tasks EXCEPT ![t] = Finished("F")]
    /\ UNCHANGED <<svc, malformed, stopRequested, syncLock,
                   syncTask, ctl, ret, store, driveData, emitted>>
    /\ UNCHANGED <<calls, faults>>
    /\ UNCHANGED entVars
    /\ UNCHANGED batchVars
    /\ UNCHANGED sweepVars

\* The stop check at the head of process_batch saw the flag: PAUSED is
\* persisted, process_batch returns False and the caller's loop continues.
TaskStopInBatch(t) ==
    /\ Live(t) /\ tasks[t].pc = "ss_pb"
    /\ syncState' = [syncState EXCEPT ![Me] = "PAUSED"]
    /\ tasks' = [tasks EXCEPT ![t] = NextBatch(@)]
    /\ UNCHANGED <<svc, malformed, driveState, stopRequested, syncLock,
                   syncTask, ctl, ret, store, driveData, emitted>>
    /\ UNCHANGED <<calls, faults>>
    /\ UNCHANGED entVars
    /\ UNCHANGED batchVars
    /\ UNCHANGED sweepVars

\* Gmail: list_threads, list_messages, get_message, list_attachments.
TaskList(t) ==
    /\ svc = "gmail"
    /\ Live(t) /\ tasks[t].pc = "list"
    /\ tasks' = [tasks EXCEPT ![t] = BatchHead(@, First(svc, 0))]
    /\ UNCHANGED <<svc, malformed, syncState, driveState, stopRequested, syncLock,
                   syncTask, ctl, ret, store, driveData, emitted>>
    /\ UNCHANGED <<calls, faults>>
    /\ UNCHANGED entVars
    /\ UNCHANGED batchVars
    /\ UNCHANGED sweepVars

\* Drive: initialize_workers.
TaskWorkers(t) ==
    /\ svc = "drive"
    /\ Live(t) /\ tasks[t].pc = "workers"
    /\ tasks' = [tasks EXCEPT ![t] = DriveHead(@, 1)]
    /\ UNCHANGED <<svc, malformed, syncState, driveState, stopRequested, syncLock,
                   syncTask, ctl, ret, store, driveData, emitted>>
    /\ UNCHANGED <<calls, faults>>
    /\ UNCHANGED entVars
    /\ UNCHANGED batchVars
    /\ UNCHANGED sweepVars

\* Drive: get_drive_sync_state; a COMPLETED drive is skipped.
TaskDriveState(t) ==
    /\ Live(t) /\ tasks[t].pc = "drive_state"
    /\ tasks' = [tasks EXCEPT ![t] =
                    IF driveState[@.d] = "COMPLETED" THEN DriveHead(@, @.d + 1)
                    ELSE [@ EXCEPT !.pc = "drive_data", !.k = 0]]
    /\ UNCHANGED <<svc, malformed, syncState, driveState, stopRequested, syncLock,
                   syncTask, ctl, ret, store, driveData, emitted>>
    /\ UNCHANGED <<calls, faults>>
    /\ UNCHANGED entVars
    /\ UNCHANGED batchVars
    /\ UNCHANGED sweepVars

\* Drive: process_drive_data, one upsert per step, no transaction.
TaskDriveData(t) ==
    /\ Live(t) /\ tasks[t].pc = "drive_data"
    /\ driveData' = [driveData EXCEPT ![tasks[t].d] = @ \cup {DriveOps[tasks[t].k + 1]}]
    /\ tasks' = [tasks EXCEPT ![t] =
                    IF @.k + 1 = Len(DriveOps) THEN [@ EXCEPT !.pc = "drive_running", !.k = 0]
                    ELSE [@ EXCEPT !.k = @ + 1]]
    /\ UNCHANGED <<svc, malformed, syncState, driveState, stopRequested, syncLock,
                   syncTask, ctl, ret, store, emitted>>
    /\ UNCHANGED <<calls, faults>>
    /\ UNCHANGED entVars
    /\ UNCHANGED batchVars
    /\ UNCHANGED sweepVars

\* Drive: update_drive_sync_state(RUNNING), list_files_in_folder.
TaskDriveRunning(t) ==
    /\ Live(t) /\ tasks[t].pc = "drive_running"
    /\ driveState' = [driveState EXCEPT ![tasks[t].d] = "RUNNING"]
    /\ tasks' = [tasks EXCEPT ![t] = BatchHead(@, First(svc, @.d))]
    /\ UNCHANGED <<svc, malformed, syncState, stopRequested, syncLock,
                   syncTask, ctl, ret, store, driveData, emitted>>
    /\ UNCHANGED <<calls, faults>>
    /\ UNCHANGED entVars
    /\ UNCHANGED batchVars
    /\ UNCHANGED sweepVars

\* Drive: update_drive_sync_state(COMPLETED) after the last batch.
TaskDriveDone(t) ==
    /\ Live(t) /\ tasks[t].pc = "drive_done"
    /\ driveState' = [driveState EXCEPT ![tasks[t].d] = "COMPLETED"]
    /\ tasks' = [tasks EXCEPT ![t] = DriveHead(@, @.d + 1)]
    /\ UNCHANGED <<svc, malformed, syncState, stopRequested, syncLock,
                   syncTask, ctl, ret, store, driveData, emitted>>
    /\ UNCHANGED <<calls, faults>>
    /\ UNCHANGED entVars
    /\ UNCHANGED batchVars
    /\ UNCHANGED sweepVars

\* ---------------------------------------------------------- process_batch
\* batch_upsert_nodes / batch_create_edges(rows, collection, transaction=txn):
\* the rows are written inside the transaction.
StageUpsert(staged, coll, new) == staged \cup {<<coll, x>> : x \in new}

\* Variant of the commit that makes only the mails / files rows visible.
CommitFirstCollection(st, staged) == st \cup {r \in staged : r[1] \in {"mails", "files"}}

\* Variant of the abort that leaves the staged rows visible.
AbortKeepsStaged(st, staged) == st \cup staged

\* txn.commit_transaction(): everything staged becomes visible at once.
CommitTxn(st, staged) == st \cup staged

\* except: txn.abort_transaction(): nothing staged becomes visible.
AbortTxn(st, staged) == st

\* async with self._sync_lock: a waiter queued earlier (stop) goes first.
LockFree == syncLock = 0 /\ ~(ctl.op = "stop" /\ ctl.pc = "wait")

\* The batch is assembled and process_batch is called: its stop check, then
\* the sync lock.
TaskAssemble(t) ==
    /\ Live(t) /\ tasks[t].pc = "assemble"
    /\ IF stopRequested
       THEN /\ tasks' = [tasks EXCEPT ![t] = [@ EXCEPT !.pc = "ss_pb", !.sawStop = TRUE]]
            /\ UNCHANGED syncLock
       ELSE IF LockFree
            THEN /\ tasks' = [tasks EXCEPT ![t] = EnterBatch(@)]
                 /\ syncLock' = HoldsAfterEnter(tasks[t], t)
            ELSE /\ tasks' = [tasks EXCEPT ![t] = [@ EXCEPT !.pc = "pb_lock"]]
                 /\ UNCHANGED syncLock
    /\ UNCHANGED <<svc, malformed, syncState, driveState, stopRequested,
                   syncTask, ctl, ret, store, driveData, emitted>>
    /\ UNCHANGED <<calls, faults>>
    /\ UNCHANGED entVars
    /\ UNCHANGED batchVars
    /\ UNCHANGED sweepVars

\* The sync lock is handed to a task that waited for it.
TaskLockAcquired(t) ==
    /\ Live(t) /\ tasks[t].pc = "pb_lock"
    /\ LockFree
    /\ tasks' = [tasks EXCEPT ![t] = EnterBatch(@)]
    /\ syncLock' = HoldsAfterEnter(tasks[t], t)
    /\ UNCHANGED <<svc, malformed, syncState, driveState, stopRequested,
                   syncTask, ctl, ret, store, driveData, emitted>>
    /\ UNCHANGED <<calls, faults>>
    /\ UNCHANGED entVars
    /\ UNCHANGED batchVars
    /\ UNCHANGED sweepVars

\* The rows of the batch are built (awaits on the store and the config), then
\* begin_transaction.
TaskTransform(t) ==
    /\ Live(t) /\ tasks[t].pc = "pb_transform"
    /\ tasks' = [tasks EXCEPT ![t] = [@ EXCEPT !.pc = "pb_txn", !.k = 0,
                                                !.txn = "open", !.staged = {}]]
    /\ UNCHANGED <<svc, malformed, syncState, driveState, stopRequested, syncLock,
                   syncTask, ctl, ret, store, driveData, emitted>>
    /\ UNCHANGED <<calls, faults>>
    /\ UNCHANGED entVars
    /\ UNCHANGED batchVars
    /\ UNCHANGED sweepVars

\* One upsert of the transaction succeeds; after the last one the transaction
\* commits, the lock is released and process_batch returns True.
TaskUpsert(t) ==
    /\ Live(t) /\ tasks[t].pc = "pb_txn"
    /\ LET tk == tasks[t]
           st == StageUpsert(tk.staged, Ops(svc)[tk.k + 1],
                             NewItems(svc, Batch(svc, tk.d, tk.i)))
       IN IF tk.k + 1 = Len(Ops(svc))
          THEN /\ store' = CommitTxn(store, st)
               /\ syncLock' = 0
               /\ tasks' = [tasks EXCEPT ![t] = [@ EXCEPT !.pc = "emit", !.j = tk.i, !.k = 0,
                                                           !.txn = "committed", !.staged = {}]]
          ELSE /\ tasks' = [tasks EXCEPT ![t] = [@ EXCEPT !.k = tk.k + 1, !.staged = st]]
               /\ UNCHANGED <<store, syncLock>>
    /\ UNCHANGED <<svc, malformed, syncState, driveState, stopRequested,
                   syncTask, ctl, ret, driveData, emitted>>
    /\ UNCHANGED <<calls, faults>>
    /\ UNCHANGED entVars
    /\ UNCHANGED batchVars
    /\ UNCHANGED sweepVars

\* A call inside process_batch fails (returns falsy or raises): the
\* transaction, if begun, is aborted; process_batch returns False and the
\* caller's loop continues with the next batch.
TaskBatchFail(t) ==
    /\ Live(t) /\ tasks[t].pc \in {"ss_pb", "pb_transform", "pb_txn"}
    /\ store' = AbortTxn(store, tasks[t].staged)
    /\ syncLock' = IF syncLock = t THEN 0 ELSE syncLock
    /\ tasks' = [tasks EXCEPT ![t] = NextBatch([@ EXCEPT !.txn = IF @ = "open" THEN "aborted" ELSE @,
                                                           !.staged = {}])]
    /\ UNCHANGED <<svc, malformed, syncState, driveState, stopRequested,
                   syncTask, ctl, ret, driveData, emitted>>
    /\ MayFail /\ faults' = faults + 1
    /\ UNCHANGED calls
    /\ UNCHANGED entVars
    /\ UNCHANGED batchVars
    /\ UNCHANGED sweepVars

\* recordId of the envelope built for item x after process_batch returned True.
EnvelopeId(s, x) == KeyOf(s, x)

\* One envelope: the key lookup and send_event_to_kafka.
TaskEmit(t) ==
    /\ Live(t) /\ tasks[t].pc = "emit"
    /\ emitted' = emitted \cup {EnvelopeId(svc, tasks[t].j)}
    /\ tasks' = [tasks EXCEPT ![t] =
                    IF @.j + 1 \in Batch(svc, @.d, @.i) THEN [@ EXCEPT !.j = @ + 1]
                    ELSE NextBatch(@)]
    /\ UNCHANGED <<svc, malformed, syncState, driveState, stopRequested, syncLock,
                   syncTask, ctl, ret, store, driveData>>
    /\ UNCHANGED <<calls, faults>>
    /\ UNCHANGED entVars
    /\ UNCHANGED batchVars
    /\ UNCHANGED sweepVars

\* update_user_sync_state(COMPLETED); return True.
TaskCompleted(t) ==
    /\ Live(t) /\ tasks[t].pc = "w_completed"
    /\ syncState' = [syncState EXCEPT ![Me] = "COMPLETED"]
    /\ tasks' = [tasks EXCEPT ![t] = Finished("T")]
    /\ UNCHANGED <<svc, malformed, driveState, stopRequested, syncLock,
                   syncTask, ctl, ret, store, driveData, emitted>>
    /\ UNCHANGED <<calls, faults>>
    /\ UNCHANGED entVars
    /\ UNCHANGED batchVars
    /\ UNCHANGED sweepVars

\* Awaits whose exception reaches the outer handler of perform_initial_sync.
OuterPcs(s) ==
    IF s = "gmail"
    THEN {"set_running", "ss_user", "list", "ss_batch", "assemble", "emit", "w_completed"}
    ELSE {"set_running", "ss_user", "ss_drive", "drive_state", "w_completed"}

\* Awaits inside the per-drive try of the drive loop.
DrivePcs == {"drive_data", "drive_running", "ss_batch", "assemble", "emit", "drive_done"}

\* A collaborator raises, 'user' is bound: the handler goes on to write FAILED.
TaskFail(t) ==
    /\ Live(t) /\ tasks[t].pc \in OuterPcs(svc)
    /\ tasks' = [tasks EXCEPT ![t] = [@ EXCEPT !.pc = "w_failed", !.d = 0, !.i = 0,
                                                !.j = 0, !.k = 0]]
    /\ UNCHANGED <<svc, malformed, syncState, driveState, stopRequested, syncLock,
                   syncTask, ctl, ret, store, driveData, emitted>>
    /\ MayFail /\ faults' = faults + 1
    /\ UNCHANGED calls
    /\ UNCHANGED entVars
    /\ UNCHANGED batchVars
    /\ UNCHANGED sweepVars

\* A collaborator raises before 'user' is assigned: Gmail's handler tests
\* 'user' in locals() and returns False; Drive's handler reads the unbound
\* local and raises.
TaskFailEarly(t) ==
    /\ Live(t) /\ tasks[t].pc \in {"ss_begin", "set_running"}
    /\ tasks' = [tasks EXCEPT ![t] = Finished(IF svc = "gmail" THEN "F" ELSE "raised")]
    /\ UNCHANGED <<svc, malformed, syncState, driveState, stopRequested, syncLock,
                   syncTask, ctl, ret, store, driveData, emitted>>
    /\ MayFail /\ faults' = faults + 1
    /\ UNCHANGED calls
    /\ UNCHANGED entVars
    /\ UNCHANGED batchVars
    /\ UNCHANGED sweepVars

\* Drive: an exception inside the per-drive try (or process_drive_data
\* returning False): the loop continues with the next drive.
TaskDriveFail(t) ==
    /\ svc = "drive"
    /\ Live(t) /\ tasks[t].pc \in DrivePcs
    /\ tasks' = [tasks EXCEPT ![t] = DriveHead(@, @.d + 1)]
    /\ UNCHANGED <<svc, malformed, syncState, driveState, stopRequested, syncLock,
                   syncTask, ctl, ret, store, driveData, emitted>>
    /\ MayFail /\ faults' = faults + 1
    /\ UNCHANGED calls
    /\ UNCHANGED entVars
    /\ UNCHANGED batchVars
    /\ UNCHANGED sweepVars

\* update_user_sync_state(FAILED); return False.
TaskFailedWrite(t) ==
    /\ Live(t) /\ tasks[t].pc = "w_failed"
    /\ syncState' = [syncState EXCEPT ![Me] = "FAILED"]
    /\ tasks' = [tasks EXCEPT ![t] = Finished("F")]
    /\ UNCHANGED <<svc, malformed, driveState, stopRequested, syncLock,
                   syncTask, ctl, ret, store, driveData, emitted>>
    /\ UNCHANGED <<calls, faults>>
    /\ UNCHANGED entVars
    /\ UNCHANGED batchVars
    /\ UNCHANGED sweepVars

\* update_user_sync_state(FAILED) raises in its turn, the store being still
\* out of reach: the exception leaves the handler and perform_initial_sync.
TaskFailedWriteRaises(t) ==
    /\ Live(t) /\ tasks[t].pc = "w_failed"
    /\ tasks' = [tasks EXCEPT ![t] = Finished("raised")]
    /\ UNCHANGED <<svc, malformed, syncState, driveState, stopRequested, syncLock,
                   syncTask, ctl, ret, store, driveData, emitted>>
    /\ UNCHANGED <<calls, faults>>
    /\ UNCHANGED entVars
    /\ UNCHANGED batchVars
    /\ UNCHANGED sweepVars

TaskStep(t) ==
    \/ TaskBegin(t) \/ TaskSetRunning(t) \/ TaskStopObserved(t) \/ TaskStopInBatch(t)
    \/ TaskList(t) \/ TaskWorkers(t) \/ TaskDriveState(t) \/ TaskDriveData(t)
    \/ TaskDriveRunning(t) \/ TaskDriveDone(t)
    \/ TaskAssemble(t) \/ TaskLockAcquired(t) \/ TaskTransform(t) \/ TaskUpsert(t)
    \/ TaskBatchFail(t) \/ TaskEmit(t) \/ TaskCompleted(t)
    \/ TaskFail(t) \/ TaskFailEarly(t) \/ TaskDriveFail(t) \/ TaskFailedWrite(t)
    \/ TaskFailedWriteRaises(t)

\* ------------------------------------------------------- control surface
\* No control call holds _transition_lock.
Idle == [op |-> "none", pc |-> "-", u |-> 0]

\* The users a control call looks at: Gmail's controller reads its own user
\* (list_individual_user), Drive's loops over get_users(org_id).
NCtl(s) == IF s = "gmail" THEN 1 ELSE NUsers

\* The user the call in progress is looking at.
CtlUser == IF ctl = Idle THEN 1 ELSE ctl.u

\* The call op is at its state read for its next user: it has just taken
\* _transition_lock, or it is inside its loop.
AtRead(op) == ctl = Idle \/ (ctl.op = op /\ ctl.pc = "read")

Returned(op, v, why) == [op |-> op, val |-> v, why |-> why]

\* if self._sync_task and not self._sync_task.done()
HasLiveTask == syncTask # 0 /\ Live(syncTask)

\* self._sync_task.cancel(); await self._sync_task: CancelledError is raised
\* at the await the task is suspended in.  It is a BaseException, so no
\* 'except Exception' handler of the task runs: an open transaction is
\* neither committed nor aborted; 'async with' releases the sync lock.
Cancelled(tks) ==
    IF HasLiveTask
    THEN [tks EXCEPT ![syncTask] = [IdleTask EXCEPT !.status = "cancelled",
                                                    !.txn = IF tks[syncTask].txn = "open"
                                                            THEN "open" ELSE "none"]]
    ELSE tks

LockAfterCancel == IF HasLiveTask /\ syncLock = syncTask THEN 0 ELSE syncLock

FreeSlots(tks) == {t \in Slots : tks[t].status # "live"}

FreeSlot(tks) == CHOOSE t \in FreeSlots(tks) : \A x \in FreeSlots(tks) : t <= x

\* asyncio.create_task(self.perform_initial_sync(org_id, action))
Spawned(tks) == [tks EXCEPT ![FreeSlot(tks)] = [IdleTask EXCEPT !.status = "live", !.pc = "begin"]]

\* Variant of the start check that lets a PAUSED user through.
StartRejectsRunningOnly(st) == st = "RUNNING"

\* Variant of the resume check that rejects only a RUNNING user.
ResumeRejectsRunningOnly(st) == st = "RUNNING"

\* start: current_state == 'RUNNING' or current_state == 'PAUSED' -> return False
StartRejects(st) == st \in {"RUNNING", "PAUSED"}

\* resume: current_state == 'RUNNING' or current_state != 'PAUSED' -> return False
ResumeRejects(st) == st = "RUNNING" \/ st # "PAUSED"

\* start: the state read of one user, the rejection, the cancellation of the
\* task in progress; Drive creates the task after its last user.
StartRead ==
    /\ AtRead("start")
    /\ LET u == CtlUser IN
       IF StartRejects(CurrentState(u))
       THEN /\ ret' = Returned("start", "F", "rejected")
            /\ ctl' = Idle
            /\ UNCHANGED <<tasks, syncLock, syncTask>>
       ELSE IF svc = "gmail"
            THEN /\ tasks' = Cancelled(tasks)
                 /\ syncLock' = LockAfterCancel
                 /\ ctl' = [op |-> "start", pc |-> "write", u |-> u]
                 /\ UNCHANGED <<ret, syncTask>>
            ELSE IF u < NCtl(svc)
                 THEN /\ tasks' = Cancelled(tasks)
                      /\ syncLock' = LockAfterCancel
                      /\ ctl' = [op |-> "start", pc |-> "read", u |-> u + 1]
                      /\ UNCHANGED <<ret, syncTask>>
                 ELSE /\ FreeSlots(Cancelled(tasks)) # {}
                      /\ tasks' = Spawned(Cancelled(tasks))
                      /\ syncTask' = FreeSlot(Cancelled(tasks))
                      /\ syncLock' = LockAfterCancel
                      /\ ret' = Returned("start", "T", "started")
                      /\ ctl' = Idle
    /\ UNCHANGED <<svc, malformed, syncState, driveState, stopRequested,
                   store, driveData, emitted>>
    /\ IF ctl = Idle THEN MayCall /\ calls' = calls + 1 ELSE UNCHANGED calls
    /\ UNCHANGED faults
    /\ UNCHANGED entVars
    /\ UNCHANGED batchVars
    /\ UNCHANGED sweepVars

\* Gmail start: update_user_sync_state(RUNNING), create_task, return True.
StartWrite ==
    /\ ctl.op = "start" /\ ctl.pc = "write"
    /\ FreeSlots(tasks) # {}
    /\ syncState' = [syncState EXCEPT ![ctl.u] = "RUNNING"]
    /\ tasks' = Spawned(tasks)
    /\ syncTask' = FreeSlot(tasks)
    /\ ret' = Returned("start", "T", "started")
    /\ ctl' = Idle
    /\ UNCHANGED <<svc, malformed, driveState, stopRequested, syncLock,
                   store, driveData, emitted>>
    /\ UNCHANGED <<calls, faults>>
    /\ UNCHANGED entVars
    /\ UNCHANGED batchVars
    /\ UNCHANGED sweepVars

\* pause: the state read of one user.  Gmail returns False unless RUNNING;
\* Drive skips a user that is not RUNNING.  For a RUNNING user the stop flag
\* is raised.
PauseRead ==
    /\ AtRead("pause")
    /\ LET u == CtlUser IN
       IF CurrentState(u) # "RUNNING"
       THEN IF svc = "gmail"
            THEN /\ ret' = Returned("pause", "F", "rejected")
                 /\ ctl' = Idle
                 /\ UNCHANGED stopRequested
            ELSE IF u < NCtl(svc)
                 THEN /\ ctl' = [op |-> "pause", pc |-> "read", u |-> u + 1]
                      /\ UNCHANGED <<ret, stopRequested>>
                 ELSE /\ ret' = Returned("pause", "T", "paused")
                      /\ ctl' = Idle
                      /\ UNCHANGED stopRequested
       ELSE /\ stopRequested' = TRUE
            /\ ctl' = [op |-> "pause", pc |-> "write", u |-> u]
            /\ UNCHANGED ret
    /\ UNCHANGED <<svc, malformed, syncState, driveState, syncLock,
                   syncTask, tasks, store, driveData, emitted>>
    /\ IF ctl = Idle THEN MayCall /\ calls' = calls + 1 ELSE UNCHANGED calls
    /\ UNCHANGED faults
    /\ UNCHANGED entVars
    /\ UNCHANGED batchVars
    /\ UNCHANGED sweepVars

\* pause: update_user_sync_state(PAUSED) takes effect.
PauseWrite ==
    /\ ctl.op = "pause" /\ ctl.pc = "write"
    /\ syncState' = [syncState EXCEPT ![ctl.u] = "PAUSED"]
    /\ ctl' = [ctl EXCEPT !.pc = "cancel"]
    /\ UNCHANGED <<svc, malformed, driveState, stopRequested, syncLock,
                   syncTask, tasks, ret, store, driveData, emitted>>
    /\ UNCHANGED <<calls, faults>>
    /\ UNCHANGED entVars
    /\ UNCHANGED batchVars
    /\ UNCHANGED sweepVars

\* pause: the write returned; the task is cancelled and awaited.
PauseCancel ==
    /\ ctl.op = "pause" /\ ctl.pc = "cancel"
    /\ tasks' = Cancelled(tasks)
    /\ syncLock' = LockAfterCancel
    /\ IF ctl.u < NCtl(svc)
       THEN /\ ctl' = [op |-> "pause", pc |-> "read", u |-> ctl.u + 1]
            /\ UNCHANGED ret
       ELSE /\ ret' = Returned("pause", "T", "paused")
            /\ ctl' = Idle
    /\ UNCHANGED <<svc, malformed, syncState, driveState, stopRequested,
                   syncTask, store, driveData, emitted>>
    /\ UNCHANGED <<calls, faults>>
    /\ UNCHANGED entVars
    /\ UNCHANGED batchVars
    /\ UNCHANGED sweepVars

\* resume: the state read of one user.  Without a row it calls start, which
\* waits for the _transition_lock that resume itself holds (asyncio.Lock is
\* not reentrant).  Drive lowers the stop flag per PAUSED user and creates
\* the task after its last user, without writing RUNNING.
ResumeRead ==
    /\ AtRead("resume")
    /\ LET u == CtlUser IN
       IF syncState[u] = NoRow
       THEN /\ ctl' = [op |-> "resume", pc |-> "nested", u |-> u]
            /\ UNCHANGED <<ret, stopRequested, tasks, syncTask>>
       ELSE IF ResumeRejects(syncState[u])
       THEN /\ ret' = Returned("resume", "F", "rejected")
            /\ ctl' = Idle
            /\ UNCHANGED <<stopRequested, tasks, syncTask>>
       ELSE IF svc = "gmail"
            THEN /\ ctl' = [op |-> "resume", pc |-> "write", u |-> u]
                 /\ UNCHANGED <<ret, stopRequested, tasks, syncTask>>
            ELSE IF u < NCtl(svc)
                 THEN /\ stopRequested' = FALSE
                      /\ ctl' = [op |-> "resume", pc |-> "read", u |-> u + 1]
                      /\ UNCHANGED <<ret, tasks, syncTask>>
                 ELSE /\ FreeSlots(tasks) # {}
                      /\ stopRequested' = FALSE
                      /\ tasks' = Spawned(tasks)
                      /\ syncTask' = FreeSlot(tasks)
                      /\ ret' = Returned("resume", "T", "resumed")
                      /\ ctl' = Idle
    /\ UNCHANGED <<svc, malformed, syncState, driveState, syncLock,
                   store, driveData, emitted>>
    /\ IF ctl = Idle THEN MayCall /\ calls' = calls + 1 ELSE UNCHANGED calls
    /\ UNCHANGED faults
    /\ UNCHANGED entVars
    /\ UNCHANGED batchVars
    /\ UNCHANGED sweepVars

\* Gmail resume: update_user_sync_state(RUNNING), the flag is lowered, a new
\* task is created (the previous one is not cancelled), return True.
ResumeWrite ==
    /\ ctl.op = "resume" /\ ctl.pc = "write"
    /\ FreeSlots(tasks) # {}
    /\ syncState' = [syncState EXCEPT ![ctl.u] = "RUNNING"]
    /\ stopRequested' = FALSE
    /\ tasks' = Spawned(tasks)
    /\ syncTask' = FreeSlot(tasks)
    /\ ret' = Returned("resume", "T", "resumed")
    /\ ctl' = Idle
    /\ UNCHANGED <<svc, malformed, driveState, syncLock,
                   store, driveData, emitted>>
    /\ UNCHANGED <<calls, faults>>
    /\ UNCHANGED entVars
    /\ UNCHANGED batchVars
    /\ UNCHANGED sweepVars

\* stop: the flag is raised; if self._sync_lock.locked() stop queues for it.
StopCall ==
    /\ ctl = Idle
    /\ stopRequested' = TRUE
    /\ ctl' = [op |-> "stop",
               pc |-> IF syncLock # 0 THEN "wait"
                      ELSE IF svc = "gmail" THEN "write" ELSE "disconnect",
               u |-> Me]
    /\ UNCHANGED <<svc, malformed, syncState, driveState, syncLock,
                   syncTask, tasks, ret, store, driveData, emitted>>
    /\ IF ctl = Idle THEN MayCall /\ calls' = calls + 1 ELSE UNCHANGED calls
    /\ UNCHANGED faults
    /\ UNCHANGED entVars
    /\ UNCHANGED batchVars
    /\ UNCHANGED sweepVars

\* stop: async with self._sync_lock: pass
StopWait ==
    /\ ctl.op = "stop" /\ ctl.pc = "wait"
    /\ syncLock = 0
    /\ ctl' = [ctl EXCEPT !.pc = IF svc = "gmail" THEN "write" ELSE "disconnect"]
    /\ UNCHANGED <<svc, malformed, syncState, driveState, stopRequested, syncLock,
                   syncTask, tasks, ret, store, driveData, emitted>>
    /\ UNCHANGED <<calls, faults>>
    /\ UNCHANGED entVars
    /\ UNCHANGED batchVars
    /\ UNCHANGED sweepVars

\* Gmail stop: update_user_sync_state(STOPPED).  Drive's stop has no such write.
StopWrite ==
    /\ ctl.op = "stop" /\ ctl.pc = "write"
    /\ syncState' = [syncState EXCEPT ![ctl.u] = "STOPPED"]
    /\ ctl' = [ctl EXCEPT !.pc = "disconnect"]
    /\ UNCHANGED <<svc, malformed, driveState, stopRequested, syncLock,
                   syncTask, tasks, ret, store, driveData, emitted>>
    /\ UNCHANGED <<calls, faults>>
    /\ UNCHANGED entVars
    /\ UNCHANGED batchVars
    /\ UNCHANGED sweepVars

\* stop: the services are disconnected, the flag is lowered, return True.
\* The sync task is not cancelled.
StopDone ==
    /\ ctl.op = "stop" /\ ctl.pc = "disconnect"
    /\ stopRequested' = FALSE
    /\ ret' = Returned("stop", "T", "stopped")
    /\ ctl' = Idle
    /\ UNCHANGED <<svc, malformed, syncState, driveState, syncLock,
                   syncTask, tasks, store, driveData, emitted>>
    /\ UNCHANGED <<calls, faults>>
    /\ UNCHANGED entVars
    /\ UNCHANGED batchVars
    /\ UNCHANGED sweepVars

\* initialize of the individual controller: a user found RUNNING is PAUSED.
InitializeRead ==
    /\ ctl = Idle
    /\ IF CurrentState(Me) = "RUNNING"
       THEN /\ ctl' = [op |-> "initialize", pc |-> "write", u |-> Me]
            /\ UNCHANGED ret
       ELSE /\ ret' = Returned("initialize", "T", "kept")
            /\ ctl' = Idle
    /\ UNCHANGED <<svc, malformed, syncState, driveState, stopRequested, syncLock,
                   syncTask, tasks, store, driveData, emitted>>
    /\ IF ctl = Idle THEN MayCall /\ calls' = calls + 1 ELSE UNCHANGED calls
    /\ UNCHANGED faults
    /\ UNCHANGED entVars
    /\ UNCHANGED batchVars
    /\ UNCHANGED sweepVars

InitializeWrite ==
    /\ ctl.op = "initialize" /\ ctl.pc = "write"
    /\ syncState' = [syncState EXCEPT ![ctl.u] = "PAUSED"]
    /\ ret' = Returned("initialize", "T", "downgraded")
    /\ ctl' = Idle
    /\ UNCHANGED <<svc, malformed, driveState, stopRequested, syncLock,
                   syncTask, tasks, store, driveData, emitted>>
    /\ UNCHANGED <<calls, faults>>
    /\ UNCHANGED entVars
    /\ UNCHANGED batchVars
    /\ UNCHANGED sweepVars

\* A collaborator raises inside a control call: 'except Exception' returns
\* False; what the call did before stays done.
CtlFail ==
    /\ ctl # Idle /\ ctl.pc \notin {"nested", "wait"}
    /\ ret' = Returned(ctl.op, "F", "error")
    /\ ctl' = Idle
    /\ UNCHANGED <<svc, malformed, syncState, driveState, stopRequested, syncLock,
                   syncTask, tasks, store, driveData, emitted>>
    /\ MayFail /\ faults' = faults + 1
    /\ UNCHANGED calls
    /\ UNCHANGED entVars
    /\ UNCHANGED batchVars
    /\ UNCHANGED sweepVars

\* No enterprise initialize call is in progress.
NotBooting == [pc |-> "-", users |-> {}, bound |-> FALSE, val |-> "-"]

\* The page tokens setup_changes_watch may hand out; 0 stands for none.
MaxToken == 2
Tokens == 1..MaxToken

\* The watch phase before its first user: no channel registered, no
\* pageTokens row, no get_changes call made.
NoWatch == [u |-> 1, pc |-> "service",
            channel |-> [x \in Users |-> 0],
            stored |-> [x \in Users |-> 0],
            asked |-> [x \in Users |-> 0],
            ncalls |-> [x \in Users |-> 0]]

\* ------------------------------------------------------------ graph store
\* The rows process_batch builds from a batch and commits to the store.
Msgs == 1..NMsgs
Atts == 1..NAtts


\* get_entity_id_by_email finds nothing.
NoEntity == "none"

\* get_entity_id_by_email(email)
EntityId(email) == IF email = "stranger" THEN NoEntity ELSE email

\* db.collection(USERS).has(entity_id) / db.collection(GROUPS).has(entity_id)
InUsers(id) == id = "user"
InGroups(id) == id = "group"

\* message.get('internalDate'): the messages are numbered in the order of
\* their dates.
DateOf(m) == m

MaxOf(S) == CHOOSE x \in S : \A y \in S : y <= x

\* list_messages: the provider lists the newest message first.
RECURSIVE NewestFirst(_)
NewestFirst(S) == IF S = {} THEN <<>>
                  ELSE <<MaxOf(S)>> \o NewestFirst(S \ {MaxOf(S)})

\* headers To / From of a message: the odd messages go from a user to an
\* entity that is neither user nor group, the even ones from a group to an
\* e-mail that is not known at all.
HeadersOf(m) == IF m % 2 = 1 THEN <<"person", "user">> ELSE <<"stranger", "group">>

\* The permission descriptors built by perform_initial_sync, one per message:
\* its attachments and the principals of its headers.
PermissionsOf(messages, attachments) ==
    [i \in 1..Len(messages) |->
        [messageId |-> messages[i],
         attachmentIds |-> SelectSeq(attachments, LAMBDA a : a.message_id = messages[i]),
         users |-> HeadersOf(messages[i])]]

\* The metadata of one thread, as perform_initial_sync assembles it.
ThreadMetadata(th, messages, attachments) ==
    [thread |-> th, messages |-> messages, attachments |-> attachments,
     permissions |-> PermissionsOf(messages, attachments)]

\* A batch: the metadata_list handed to process_batch (threads for Gmail,
\* files for Drive).
NoBatch == [threads |-> <<>>, files |-> <<>>]

\* attachment['message_id']: attachment a belongs to message a.
OwnerOf(a) == ((a - 1) % NMsgs) + 1

\* The attachment lists of a thread: none, or one attachment of one of its
\* messages.
AttachmentLists(S) ==
    {<<>>} \cup {<<[attachment_id |-> a, message_id |-> OwnerOf(a)]>> :
                    a \in {x \in Atts : OwnerOf(x) \in S}}

\* The message lists of a thread: its messages newest first, or the same with
\* the oldest one listed twice.
MessageLists(S) == {NewestFirst(S), NewestFirst(S) \o <<NewestFirst(S)[Len(NewestFirst(S))]>>}

\* The one message of the mailbox's second thread.
OtherMsg == NMsgs + 1

\* The metadata of a thread of a mailbox with several threads: every thread
\* is given the same 'permissions' list, built once over all the messages of
\* the user (messages_full).
UserWideMetadata(th, messages, all) ==
    [thread |-> th, messages |-> messages, attachments |-> <<>>,
     permissions |-> PermissionsOf(all, <<>>)]

\* A batch of two threads: thread 1 with some of its messages, then thread 2.
TwoThreadBatches ==
    {[threads |-> <<UserWideMetadata(1, NewestFirst(S), NewestFirst(S \cup {OtherMsg})),
                    UserWideMetadata(2, <<OtherMsg>>, NewestFirst(S \cup {OtherMsg}))>>,
      files |-> <<>>] : S \in (SUBSET Msgs) \ {{}}}

\* The mail batches: one thread with some of its messages, or two threads.
MailBatches ==
    TwoThreadBatches \cup
    UNION {{[threads |-> <<ThreadMetadata(1, ms, ats)>>, files |-> <<>>] :
               ms \in MessageLists(S), ats \in AttachmentLists(S)} :
           S \in (SUBSET Msgs) \ {{}}}

\* metadata.get('parents'): file 1 is the root folder, every other file lies
\* in the file before it.
ParentsOf(f) == IF f > 1 THEN <<f - 1>> ELSE <<>>

\* The drive batches: some files in listing order, or the same with the last
\* one listed twice, or the same after a payload without 'id' (0).
FileLists(S) == {NewestFirst(S), NewestFirst(S) \o <<NewestFirst(S)[Len(NewestFirst(S))]>>,
                 <<0>> \o NewestFirst(S)}

DriveBatches ==
    UNION {{[threads |-> <<>>, files |-> fs] : fs \in FileLists(S)} :
           S \in (SUBSET Items) \ {{}}}

BatchesOf(s) == IF s = "gmail" THEN MailBatches ELSE DriveBatches

\* An empty store: the users and groups directories are fixed (InUsers,
\* InGroups).
EmptyDb == [mails |-> {}, attachments |-> {}, files |-> {}, records |-> {},
            recordRelations |-> {}, permissions |-> {}, people |-> {}]

\* The locals of process_batch: the rows built so far, in list order.
NoRowsBuilt == [mails |-> <<>>, attachments |-> <<>>, files |-> <<>>, records |-> <<>>,
                recordRelations |-> <<>>, permissions |-> <<>>, people |-> {}]

\* process_batch(b) returns True: once more in a row if b is the batch of the
\* call that returned True before.
Returning(b) == [batch |-> b, times |-> IF last.batch = b THEN last.times + 1 ELSE 1]

\* No process_batch call has returned True yet.
NoneReturned == [batch |-> NoBatch, times |-> 0]

\* No process_batch call has been made yet.
NoOutcome == [val |-> "-", txn |-> "none"]

\* No process_batch call is in flight.
NoRun == [pc |-> "idle", batch |-> NoBatch, rows |-> NoRowsBuilt]

Range(s) == {s[i] : i \in 1..Len(s)}

\* The keys in use: of the committed vertices and of the rows of the call in
\* flight.
KeysInUse ==
    {r.key : r \in db.mails \cup db.attachments \cup db.files}
    \cup {r.key : r \in Range(run.rows.mails) \cup Range(run.rows.attachments)
                       \cup Range(run.rows.files)}

\* str(uuid.uuid4()): a key no vertex has, different for every new row.
NewKey(acc) ==
    (IF KeysInUse = {} THEN 0 ELSE MaxOf(KeysInUse))
    + Len(acc.mails) + Len(acc.attachments) + Len(acc.files) + 1

\* ------------------------------------------------- process_batch, Gmail
\* sorted(messages_metadata, key=internalDate): a stable sort.
InsertByDate(s, m) ==
    LET n == Cardinality({i \in 1..Len(s) : DateOf(s[i]) <= DateOf(m)})
    IN SubSeq(s, 1, n) \o <<m>> \o SubSeq(s, n + 1, Len(s))

RECURSIVE SortByDate(_)
SortByDate(s) == IF s = <<>> THEN <<>>
                 ELSE InsertByDate(SortByDate(SubSeq(s, 1, Len(s) - 1)), s[Len(s)])

\* next(cursor, None)['_key'] of a query by external id over the committed rows.
KeyIn(rows, ext) ==
    IF \E r \in rows : r.ext = ext
    THEN (CHOOSE r \in rows : r.ext = ext /\ \A x \in rows : x.ext = ext => r.key <= x.key).key
    ELSE NoKey

\* next((m['_key'] for m in messages if m[...] == ext), None) over a local list.
KeyInList(list, ext) ==
    IF \E i \in 1..Len(list) : list[i].ext = ext
    THEN list[CHOOSE i \in 1..Len(list) :
                 list[i].ext = ext /\ \A j \in 1..(i - 1) : list[j].ext # ext].key
    ELSE NoKey

\* Variant of the existence check that finds no message.
MessageNeverExists(m) == FALSE

\* The existence check of the message loop.
MessageExists(m) == KeyIn(db.mails, m) # NoKey

\* for i, message_data in enumerate(sorted_messages): an existing message is
\* skipped and becomes the previous one; a new one gets a key, a mails row, a
\* records row and, after a previous message, a SIBLING edge.
RECURSIVE MessageLoop(_, _, _, _, _)
MessageLoop(acc, prev, sorted, i, th) ==
    IF i > Len(sorted) THEN acc
    ELSE IF MessageExists(sorted[i])
         THEN MessageLoop(acc, KeyIn(db.mails, sorted[i]), sorted, i + 1, th)
         ELSE LET k == NewKey(acc)
                  row == [key |-> k, ext |-> sorted[i], threadId |-> th,
                          isParent |-> (i = 1), internalDate |-> DateOf(sorted[i])]
                  rec == [key |-> k, recordType |-> "MESSAGE"]
                  rel == [from |-> <<"records", prev>>, to |-> <<"records", k>>,
                          relationType |-> "SIBLING"]
              IN MessageLoop([acc EXCEPT !.mails = Append(@, row),
                                         !.records = Append(@, rec),
                                         !.recordRelations = IF prev # NoKey THEN Append(@, rel)
                                                             ELSE @],
                             k, sorted, i + 1, th)

\* for attachment in attachments_metadata: an existing attachment is skipped;
\* a new one gets a key, an attachments row, a records row and, if its message
\* is among the new messages of the batch, an edge from the message's record.
RECURSIVE AttachmentLoop(_, _, _)
AttachmentLoop(acc, atts, i) ==
    IF i > Len(atts) THEN acc
    ELSE IF KeyIn(db.attachments, atts[i].attachment_id) # NoKey
         THEN AttachmentLoop(acc, atts, i + 1)
         ELSE LET k == NewKey(acc)
                  row == [key |-> k, ext |-> atts[i].attachment_id,
                          messageId |-> atts[i].message_id]
                  rec == [key |-> k, recordType |-> "attachment"]
                  mk == KeyInList(acc.mails, atts[i].message_id)
                  rel == [from |-> <<"records", mk>>, to |-> <<"records", k>>,
                          relationType |-> "attachment"]
              IN AttachmentLoop([acc EXCEPT !.attachments = Append(@, row),
                                            !.records = Append(@, rec),
                                            !.recordRelations = IF mk # NoKey THEN Append(@, rel)
                                                                ELSE @],
                                atts, i + 1)

\* The collection an entity of a message permission is bound to.
EntityType(id) == IF InUsers(id) THEN "users"
                  ELSE IF InGroups(id) THEN "groups" ELSE "people"

\* for email in emails (message permissions): an e-mail without entity id is
\* passed over; an entity in neither users nor groups is saved to people at
\* once (save_to_people_collection takes no transaction).
RECURSIVE MessageGrants(_, _, _, _)
MessageGrants(acc, emails, i, mk) ==
    IF i > Len(emails) THEN acc
    ELSE IF EntityId(emails[i]) = NoEntity THEN MessageGrants(acc, emails, i + 1, mk)
    ELSE LET id == EntityId(emails[i])
             edge == [from |-> <<EntityType(id), id>>, to |-> <<"messages", mk>>,
                      relationType |-> "HAS_ACCESS"]
         IN MessageGrants([acc EXCEPT !.people = IF EntityType(id) = "people" THEN @ \cup {id}
                                                  ELSE @,
                                      !.permissions = Append(@, edge)],
                          emails, i + 1, mk)

\* for email in emails (attachment permissions): an entity in neither users
\* nor groups is skipped.
RECURSIVE AttachmentGrants(_, _, _, _)
AttachmentGrants(acc, emails, i, ak) ==
    IF i > Len(emails) THEN acc
    ELSE IF EntityId(emails[i]) = NoEntity \/ EntityType(EntityId(emails[i])) = "people"
         THEN AttachmentGrants(acc, emails, i + 1, ak)
    ELSE LET id == EntityId(emails[i])
             edge == [from |-> <<EntityType(id), id>>, to |-> <<"attachments", ak>>,
                      relationType |-> "HAS_ACCESS"]
         IN AttachmentGrants([acc EXCEPT !.permissions = Append(@, edge)], emails, i + 1, ak)

\* for attachment_id in attachment_ids: only an attachment new in this batch
\* has a key.
RECURSIVE AttachmentPermissions(_, _, _, _)
AttachmentPermissions(acc, ids, i, emails) ==
    IF i > Len(ids) THEN acc
    ELSE LET ak == KeyInList(acc.attachments, ids[i].attachment_id)
         IN AttachmentPermissions(IF ak # NoKey THEN AttachmentGrants(acc, emails, 1, ak) ELSE acc,
                                  ids, i + 1, emails)

\* for permission in permissions_metadata: only a message new in this batch
\* has a key.
RECURSIVE PermissionLoop(_, _, _)
PermissionLoop(acc, perms, i) ==
    IF i > Len(perms) THEN acc
    ELSE LET mk == KeyInList(acc.mails, perms[i].messageId)
             a1 == IF mk # NoKey THEN MessageGrants(acc, perms[i].users, 1, mk) ELSE acc
         IN PermissionLoop(AttachmentPermissions(a1, perms[i].attachmentIds, 1, perms[i].users),
                           perms, i + 1)

\* for metadata in metadata_list: a thread without id is skipped.
RECURSIVE ThreadLoop(_, _, _)
ThreadLoop(acc, list, i) ==
    IF i > Len(list) THEN acc
    ELSE IF list[i].thread = 0 THEN ThreadLoop(acc, list, i + 1)
    ELSE LET a1 == MessageLoop(acc, NoKey, SortByDate(list[i].messages), 1, list[i].thread)
             a2 == AttachmentLoop(a1, list[i].attachments, 1)
         IN ThreadLoop(PermissionLoop(a2, list[i].permissions, 1), list, i + 1)

\* ------------------------------------------------- process_batch, Drive
\* for metadata in metadata_list: a file without id is skipped, an existing
\* file is noted, a new one gets a key, a files row and a records row.
RECURSIVE FileLoop(_, _, _)
FileLoop(acc, list, i) ==
    IF i > Len(list) THEN acc
    ELSE IF list[i] = 0 \/ KeyIn(db.files, list[i]) # NoKey THEN FileLoop(acc, list, i + 1)
    ELSE LET k == NewKey(acc)
         IN FileLoop([acc EXCEPT !.files = Append(@, [key |-> k, ext |-> list[i]]),
                                 !.records = Append(@, [key |-> k, recordType |-> "FILE"])],
                     list, i + 1)

\* db.aql.execute(...) with db = txn: the committed files and those staged.
KeyInTxn(acc, ext) ==
    IF KeyIn(db.files, ext) # NoKey THEN KeyIn(db.files, ext) ELSE KeyInList(acc.files, ext)

\* The parents loop: for every parent of every metadata an edge from the
\* parent's record to the record of file_id, the variable the first loop left
\* at the id of the last metadata.
RECURSIVE ParentLoop(_, _, _, _)
ParentLoop(acc, list, i, p) ==
    IF i > Len(list) THEN acc
    ELSE IF p > Len(ParentsOf(list[i])) THEN ParentLoop(acc, list, i + 1, 1)
    ELSE LET pk == KeyInTxn(acc, ParentsOf(list[i])[p])
             fk == KeyInTxn(acc, list[Len(list)])
             rel == [from |-> <<"records", pk>>, to |-> <<"records", fk>>,
                     relationType |-> "PARENT_CHILD"]
         IN ParentLoop([acc EXCEPT !.recordRelations = IF pk # NoKey /\ fk # NoKey
                                                       THEN Append(@, rel) ELSE @],
                       list, i, p + 1)


\* ------------------------------------------------------------ the system
Init ==
    /\ svc \in Services
    /\ malformed \in (IF svc = "gmail" THEN {0, 2} ELSE {0})
    /\ syncState \in [Users -> {NoRow, "NOT_STARTED", "RUNNING", "PAUSED"}]
    /\ syncState[Me] # "NOT_STARTED"
    /\ \A u \in Users \ {Me} : IF svc = "gmail" THEN syncState[u] = NoRow
                                 ELSE syncState[u] \in {"NOT_STARTED", "PAUSED"}
    /\ driveState = [d \in Drives |-> "NOT_STARTED"]
    /\ stopRequested = FALSE
    /\ syncLock = 0
    /\ syncTask = 0
    /\ tasks = [t \in Slots |-> IdleTask]
    /\ ctl = Idle
    /\ ret = Returned("none", "-", "-")
    /\ store = {}
    /\ driveData = [d \in Drives |-> {}]
    /\ emitted = {}
    /\ calls = 0
    /\ faults = 0
    /\ boot = NotBooting
    /\ known = {}
    /\ orgExists = FALSE
    /\ watch = NoWatch
    /\ db = EmptyDb
    /\ run = NoRun
    /\ last = NoneReturned
    /\ outcome = NoOutcome
    /\ nruns = 0
    /\ sweep = NoSweep

Next ==
    \/ \E t \in Slots : TaskStep(t)
    \/ StartRead \/ StartWrite
    \/ PauseRead \/ PauseWrite \/ PauseCancel
    \/ ResumeRead \/ ResumeWrite
    \/ StopCall \/ StopWait \/ StopWrite \/ StopDone
    \/ InitializeRead \/ InitializeWrite
    \/ CtlFail

Spec == Init /\ [][Next]_vars

\* The event loop runs whatever coroutine is ready: a control call or a sync
\* task that can take its next step is not left waiting for ever.
SpecLive == Init /\ [][Next]_vars /\ WF_vars(Next)

\* ---------------------------------------------- enterprise initialize
\* GmailSyncEnterpriseService.initialize / DriveSyncEnterpriseService.initialize,
\* run at start-up over the users listed by the admin service (Users).
syncVars == <<malformed, driveState, stopRequested, syncLock, syncTask, tasks,
              ctl, ret, store, driveData, emitted, calls>>

\* The users the call keeps in its local 'users': Gmail keeps the listed
\* users that get_entity_id_by_email does not find, Drive keeps all of them.
KeptUsers(s, kn) == IF s = "gmail" THEN Users \ kn ELSE Users

BootReturned(v) == [NotBooting EXCEPT !.pc = "returned", !.val = v]

\* list_enterprise_users and batch_upsert_nodes(users): the users are stored.
EntDiscover ==
    /\ boot.pc = "discover"
    /\ boot' = [boot EXCEPT !.pc = "org", !.users = KeptUsers(svc, known)]
    /\ known' = known \cup Users
    /\ UNCHANGED <<svc, syncState, orgExists, faults>>
    /\ UNCHANGED syncVars
    /\ UNCHANGED watch
    /\ UNCHANGED batchVars
    /\ UNCHANGED sweepVars

\* The organization vertex.  Gmail binds 'organization' only when
\* organization_exists is false; Drive always binds it.
EntOrg ==
    /\ boot.pc = "org"
    /\ boot' = [boot EXCEPT !.pc = "relations", !.bound = (svc = "drive" \/ ~orgExists)]
    /\ orgExists' = TRUE
    /\ UNCHANGED <<svc, syncState, known, faults>>
    /\ UNCHANGED syncVars
    /\ UNCHANGED watch
    /\ UNCHANGED batchVars
    /\ UNCHANGED sweepVars

\* belongsTo relations: 'for user in users' reads organization["_key"]; with
\* the name unbound the NameError reaches the outer handler: return False.
EntRelations ==
    /\ boot.pc = "relations"
    /\ boot' = IF boot.users # {} /\ ~boot.bound THEN BootReturned("F")
               ELSE [boot EXCEPT !.pc = "downgrade"]
    /\ UNCHANGED <<svc, syncState, known, orgExists, faults>>
    /\ UNCHANGED syncVars
    /\ UNCHANGED watch
    /\ UNCHANGED batchVars
    /\ UNCHANGED sweepVars

\* The user 'for user in users' visits next.
NextUser == CHOOSE u \in boot.users : \A x \in boot.users : u <= x

\* for user in users: a user whose state is RUNNING is written PAUSED.  After
\* the last user Gmail returns True, Drive goes on to the watch phase.
EntDowngrade ==
    /\ boot.pc = "downgrade"
    /\ IF boot.users = {}
       THEN /\ boot' = IF svc = "gmail" THEN BootReturned("T") ELSE [boot EXCEPT !.pc = "watch"]
            /\ UNCHANGED syncState
       ELSE /\ syncState' = IF CurrentState(NextUser) = "RUNNING"
                            THEN [syncState EXCEPT ![NextUser] = "PAUSED"]
                            ELSE syncState
            /\ boot' = [boot EXCEPT !.users = @ \ {NextUser}]
    /\ UNCHANGED <<svc, known, orgExists, faults>>
    /\ UNCHANGED syncVars
    /\ UNCHANGED watch
    /\ UNCHANGED batchVars
    /\ UNCHANGED sweepVars

\* Drive, the watch loop: 'continue', or the end of the loop body.  After
\* the last user initialize returns True.
NextWatch(w) == [w EXCEPT !.u = @ + 1, !.pc = "service"]

BootAfterWatch(w) == IF w.u = NUsers THEN BootReturned("T") ELSE boot

\* get_changes(page_token) returns the changes and a new token, another one
\* than the token it was given.
NewToken(t) == (t % MaxToken) + 1

\* Variant of the step after get_changes that stores the new token.
AfterChangesStoring(stored, u, new) == [stored EXCEPT ![u] = new]

\* The pageTokens rows after get_changes: 'changes' and 'new_token' are only
\* logged.
AfterChanges(stored, u, new) == stored

\* create_user_service(user['email']) returns a service.
WatchService ==
    /\ boot.pc = "watch" /\ watch.pc = "service"
    /\ watch' = [watch EXCEPT !.pc = "register"]
    /\ UNCHANGED boot
    /\ UNCHANGED <<svc, syncState, known, orgExists, faults>>
    /\ UNCHANGED syncVars
    /\ UNCHANGED batchVars
    /\ UNCHANGED sweepVars

\* create_user_service or setup_changes_watch returns nothing: 'continue'.
WatchSkip ==
    /\ boot.pc = "watch" /\ watch.pc \in {"service", "register"}
    /\ MayFail /\ faults' = faults + 1
    /\ watch' = NextWatch(watch)
    /\ boot' = BootAfterWatch(watch)
    /\ UNCHANGED <<svc, syncState, known, orgExists>>
    /\ UNCHANGED syncVars
    /\ UNCHANGED batchVars
    /\ UNCHANGED sweepVars

\* setup_changes_watch(user_service) registers the channel and returns its
\* channel id, resource id and page token.
WatchRegister ==
    /\ boot.pc = "watch" /\ watch.pc = "register"
    /\ \E t \in Tokens :
          watch' = [watch EXCEPT !.pc = "store", !.channel[watch.u] = t]
    /\ UNCHANGED boot
    /\ UNCHANGED <<svc, syncState, known, orgExists, faults>>
    /\ UNCHANGED syncVars
    /\ UNCHANGED batchVars
    /\ UNCHANGED sweepVars

\* store_page_token(channel_id, resource_id, user['email'], page_token)
WatchStore ==
    /\ boot.pc = "watch" /\ watch.pc = "store"
    /\ watch' = [watch EXCEPT !.pc = "changes", !.stored[watch.u] = watch.channel[watch.u]]
    /\ UNCHANGED boot
    /\ UNCHANGED <<svc, syncState, known, orgExists, faults>>
    /\ UNCHANGED syncVars
    /\ UNCHANGED batchVars
    /\ UNCHANGED sweepVars

\* get_changes(channel_data['page_token']); the result is logged; the end of
\* the loop body.
WatchChanges ==
    /\ boot.pc = "watch" /\ watch.pc = "changes"
    /\ watch' = [NextWatch(watch) EXCEPT
                    !.asked[watch.u] = watch.channel[watch.u],
                    !.ncalls[watch.u] = @ + 1,
                    !.stored = AfterChanges(@, watch.u, NewToken(watch.channel[watch.u]))]
    /\ boot' = BootAfterWatch(watch)
    /\ UNCHANGED <<svc, syncState, known, orgExists, faults>>
    /\ UNCHANGED syncVars
    /\ UNCHANGED batchVars
    /\ UNCHANGED sweepVars

\* Gmail: an exception inside the per-user try of the loop is logged and the
\* loop goes on with the next user.
EntUserFail ==
    /\ svc = "gmail"
    /\ boot.pc = "downgrade" /\ boot.users # {}
    /\ MayFail /\ faults' = faults + 1
    /\ boot' = [boot EXCEPT !.users = @ \ {NextUser}]
    /\ UNCHANGED <<svc, syncState, known, orgExists>>
    /\ UNCHANGED syncVars
    /\ UNCHANGED watch
    /\ UNCHANGED batchVars
    /\ UNCHANGED sweepVars

\* Any other exception reaches the outer handler: return False.
EntFail ==
    /\ \/ boot.pc \in {"discover", "org", "relations", "watch"}
       \/ svc = "drive" /\ boot.pc = "downgrade" /\ boot.users # {}
    /\ MayFail /\ faults' = faults + 1
    /\ boot' = BootReturned("F")
    /\ UNCHANGED <<svc, syncState, known, orgExists>>
    /\ UNCHANGED syncVars
    /\ UNCHANGED watch
    /\ UNCHANGED batchVars
    /\ UNCHANGED sweepVars

\* Start-up after a crash: any persisted states, some users already stored.
InitEnterprise ==
    /\ svc \in Services
    /\ malformed = 0
    /\ syncState \in [Users -> {NoRow, "NOT_STARTED", "RUNNING", "PAUSED", "COMPLETED"}]
    /\ known \in SUBSET Users
    /\ orgExists \in BOOLEAN
    /\ watch = NoWatch
    /\ boot = [NotBooting EXCEPT !.pc = "discover"]
    /\ driveState = [d \in Drives |-> "NOT_STARTED"]
    /\ stopRequested = FALSE
    /\ syncLock = 0
    /\ syncTask = 0
    /\ tasks = [t \in Slots |-> IdleTask]
    /\ ctl = Idle
    /\ ret = Returned("none", "-", "-")
    /\ store = {}
    /\ driveData = [d \in Drives |-> {}]
    /\ emitted = {}
    /\ calls = 0
    /\ faults = 0
    /\ db = EmptyDb
    /\ run = NoRun
    /\ last = NoneReturned
    /\ outcome = NoOutcome
    /\ nruns = 0
    /\ sweep = NoSweep

NextEnterprise ==
    \/ EntDiscover \/ EntOrg \/ EntRelations \/ EntDowngrade
    \/ WatchService \/ WatchSkip \/ WatchRegister
    \/ WatchStore \/ WatchChanges
    \/ EntUserFail \/ EntFail

SpecInit == InitEnterprise /\ [][NextEnterprise]_vars

\* ---------------------------------------------------- the calls on the store
\* The rows process_batch builds from a batch against the committed store.
Transform(s, b) ==
    IF s = "gmail" THEN ThreadLoop(NoRowsBuilt, b.threads, 1)
    ELSE FileLoop(NoRowsBuilt, b.files, 1)

\* if messages or attachments: / if files or records or recordRelations:
NothingNew(rows) == rows.mails = <<>> /\ rows.attachments = <<>> /\ rows.files = <<>>

\* batch_create_edges: every edge of the list becomes a row of its own; n
\* tells apart the rows that join the same two vertices.
RECURSIVE AddEdges(_, _, _)
AddEdges(edges, list, i) ==
    IF i > Len(list) THEN edges
    ELSE LET same == {e \in edges : e.from = list[i].from /\ e.to = list[i].to
                                        /\ e.relationType = list[i].relationType}
         IN AddEdges(edges \cup {[from |-> list[i].from, to |-> list[i].to,
                                  relationType |-> list[i].relationType,
                                  n |-> Cardinality(same) + 1]},
                     list, i + 1)

\* Drive, the permissions loop: a file of the batch that the first loop did
\* not note as existing has no key among the committed and the staged files.
KeyMissing(b, rows) ==
    /\ svc = "drive"
    /\ \E i \in 1..Len(b.files) : KeyInTxn(rows, b.files[i]) = NoKey

\* commit_transaction: the rows of the transaction become visible together.
Committed(g, rows) ==
    [g EXCEPT !.mails = @ \cup Range(rows.mails),
                  !.attachments = @ \cup Range(rows.attachments),
                  !.files = @ \cup Range(rows.files),
                  !.records = @ \cup Range(rows.records),
                  !.recordRelations = AddEdges(@, rows.recordRelations, 1),
                  !.permissions = AddEdges(@, rows.permissions, 1)]

coreVars == <<malformed, syncState, driveState, stopRequested, syncLock, syncTask,
              tasks, ctl, ret, store, driveData, emitted, calls, boot, known, orgExists, watch>>

\* process_batch(b) up to begin_transaction: the rows are built against the
\* committed store, the people vertices are saved on the way; with nothing
\* new it returns True at once.  Drive finds the parents inside the
\* transaction.
BatchBuild(b) ==
    /\ b \in BatchesOf(svc)
    /\ run.pc = "idle"
    /\ nruns < MaxBatches
    /\ nruns' = nruns + 1
    /\ LET rows == Transform(svc, b)
       IN /\ db' = [db EXCEPT !.people = @ \cup rows.people]
          /\ IF NothingNew(rows)
             THEN /\ run' = NoRun
                  /\ last' = Returning(b)
                  /\ outcome' = [val |-> "T", txn |-> "none"]
             ELSE /\ run' = [pc |-> "txn", batch |-> b,
                             rows |-> IF svc = "gmail" THEN rows
                                      ELSE ParentLoop(rows, b.files, 1, 1)]
                  /\ outcome' = [val |-> "-", txn |-> "open"]
                  /\ UNCHANGED last
    /\ UNCHANGED <<svc, faults>>
    /\ UNCHANGED coreVars
    /\ UNCHANGED sweepVars

\* The upserts succeed and the transaction commits: return True.
BatchCommit ==
    /\ run.pc = "txn"
    /\ ~KeyMissing(run.batch, run.rows)
    /\ db' = Committed(db, run.rows)
    /\ last' = Returning(run.batch)
    /\ outcome' = [val |-> "T", txn |-> "committed"]
    /\ run' = NoRun
    /\ UNCHANGED <<svc, faults, nruns>>
    /\ UNCHANGED coreVars
    /\ UNCHANGED sweepVars

\* An upsert fails: abort_transaction, return False.
BatchAbort ==
    /\ run.pc = "txn"
    /\ faults < MaxFaults /\ faults' = faults + 1
    /\ run' = NoRun
    /\ outcome' = [val |-> "F", txn |-> "aborted"]
    /\ UNCHANGED <<svc, db, last, nruns>>
    /\ UNCHANGED coreVars
    /\ UNCHANGED sweepVars

\* Drive, the permissions loop: the key of a file of the batch is not found
\* and process_batch returns False from inside the try: the transaction is
\* neither committed nor aborted.
BatchKeyMissing ==
    /\ run.pc = "txn"
    /\ KeyMissing(run.batch, run.rows)
    /\ run' = NoRun
    /\ outcome' = [val |-> "F", txn |-> "open"]
    /\ UNCHANGED <<svc, faults, db, last, nruns>>
    /\ UNCHANGED coreVars
    /\ UNCHANGED sweepVars

\* A controller on an empty store.
InitStore ==
    /\ svc \in Services
    /\ db = EmptyDb
    /\ run = NoRun
    /\ last = NoneReturned
    /\ outcome = NoOutcome
    /\ nruns = 0
    /\ sweep = NoSweep
    /\ malformed = 0
    /\ syncState = [u \in Users |-> NoRow]
    /\ driveState = [d \in Drives |-> "NOT_STARTED"]
    /\ stopRequested = FALSE
    /\ syncLock = 0
    /\ syncTask = 0
    /\ tasks = [t \in Slots |-> IdleTask]
    /\ ctl = Idle
    /\ ret = Returned("none", "-", "-")
    /\ store = {}
    /\ driveData = [d \in Drives |-> {}]
    /\ emitted = {}
    /\ calls = 0
    /\ faults = 0
    /\ boot = NotBooting
    /\ known = {}
    /\ orgExists = FALSE
    /\ watch = NoWatch

NextStore ==
    \/ \E b \in MailBatches \cup DriveBatches : BatchBuild(b)
    \/ BatchCommit
    \/ BatchAbort
    \/ BatchKeyMissing

SpecStore == InitStore /\ [][NextStore]_vars

\* -------------------------------------------------------------- a sync run
\* perform_initial_sync followed from its first line to its return, in a
\* controller on which no control call is made meanwhile (_should_stop finds
\* no flag).  The enterprise variants loop over get_users(org_id), the
\* individual ones work on list_individual_user()[0].  The batch loop of a
\* user is one step here; its steps are those of the sync task above.
Kinds == {"enterprise", "individual"}

\* len(users): the users the run visits.
RunUsers(kind) == IF kind = "enterprise" THEN NUsers ELSE 1

\* The run returns res (or ends by raising).
SweepReturns(sw, res) == [sw EXCEPT !.pc = "returned", !.res = res]

\* 'continue' in the user loop, or the end of its body: the next user, or the
\* lines after the loop.
ContinueUsers(sw) ==
    IF sw.u < RunUsers(sw.kind) THEN [sw EXCEPT !.pc = "set_running", !.u = @ + 1]
    ELSE [sw EXCEPT !.pc = "finish"]

\* update_user_sync_state(user['email'], 'FAILED')
MarkFailed(ss, u) == [ss EXCEPT ![u] = "FAILED"]

\* Everything but the controller class, the sync states, the failures and the
\* run.
sweepFrame == <<malformed, driveState, stopRequested, syncLock, syncTask, tasks, ctl,
                ret, store, driveData, emitted, calls, boot, known, orgExists, watch>>

\* _should_stop() finds no flag.
SweepBegin ==
    /\ sweep.pc = "begin"
    /\ sweep' = [sweep EXCEPT !.pc = "users"]
    /\ UNCHANGED <<svc, syncState, faults>>
    /\ UNCHANGED sweepFrame
    /\ UNCHANGED batchVars

\* get_users(org_id) / list_individual_user(): 'user' is bound to the first
\* user.
SweepUsers ==
    /\ sweep.pc = "users"
    /\ sweep' = [sweep EXCEPT !.pc = "set_running", !.u = 1]
    /\ UNCHANGED <<svc, syncState, faults>>
    /\ UNCHANGED sweepFrame
    /\ UNCHANGED batchVars

\* update_user_sync_state(RUNNING), the stop check.
SweepSetRunning ==
    /\ sweep.pc = "set_running"
    /\ syncState' = [syncState EXCEPT ![sweep.u] = "RUNNING"]
    /\ sweep' = [sweep EXCEPT !.pc = IF sweep.kind = "enterprise" THEN "service" ELSE "content"]
    /\ UNCHANGED <<svc, faults>>
    /\ UNCHANGED sweepFrame
    /\ UNCHANGED batchVars

\* Enterprise: create_user_service(user['email']) returns a service.
SweepService ==
    /\ sweep.pc = "service"
    /\ sweep' = [sweep EXCEPT !.pc = "content"]
    /\ UNCHANGED <<svc, syncState, faults>>
    /\ UNCHANGED sweepFrame
    /\ UNCHANGED batchVars

\* Enterprise: create_user_service returns nothing: 'continue'.
SweepNoService ==
    /\ sweep.pc = "service"
    /\ MayFail /\ faults' = faults + 1
    /\ sweep' = ContinueUsers(sweep)
    /\ UNCHANGED <<svc, syncState>>
    /\ UNCHANGED sweepFrame
    /\ UNCHANGED batchVars

\* Gmail: list_threads, list_messages, get_message, list_attachments.  With no
\* threads the enterprise run continues with the next user; the individual
\* run writes COMPLETED and returns False.
SweepList ==
    /\ svc = "gmail"
    /\ sweep.pc = "content"
    /\ IF sweep.threads[sweep.u] > 0
       THEN /\ sweep' = [sweep EXCEPT !.pc = "batches"]
            /\ UNCHANGED syncState
       ELSE IF sweep.kind = "enterprise"
            THEN /\ sweep' = ContinueUsers(sweep)
                 /\ UNCHANGED syncState
            ELSE /\ sweep' = SweepReturns(sweep, "F")
                 /\ syncState' = [syncState EXCEPT ![sweep.u] = "COMPLETED"]
    /\ UNCHANGED <<svc, faults>>
    /\ UNCHANGED sweepFrame
    /\ UNCHANGED batchVars

\* Drive: initialize_workers.
SweepWorkers ==
    /\ svc = "drive"
    /\ sweep.pc = "content"
    /\ sweep' = [sweep EXCEPT !.pc = "batches"]
    /\ UNCHANGED <<svc, syncState, faults>>
    /\ UNCHANGED sweepFrame
    /\ UNCHANGED batchVars

\* The batch loop over the user's threads / the drive loop over the user's
\* drives runs to its end.
SweepBatches ==
    /\ sweep.pc = "batches"
    /\ sweep' = [sweep EXCEPT !.pc = "w_completed"]
    /\ UNCHANGED <<svc, syncState, faults>>
    /\ UNCHANGED sweepFrame
    /\ UNCHANGED batchVars

\* update_user_sync_state(COMPLETED) at the end of the user's body.
SweepCompleted ==
    /\ sweep.pc = "w_completed"
    /\ syncState' = [syncState EXCEPT ![sweep.u] = "COMPLETED"]
    /\ sweep' = ContinueUsers(sweep)
    /\ UNCHANGED <<svc, faults>>
    /\ UNCHANGED sweepFrame
    /\ UNCHANGED batchVars

\* self.is_completed = True; return True.  The Gmail enterprise run awaits
\* self._complete_sync(status="COMPLETED") before: no class defines that
\* method, the attribute lookup raises AttributeError and the handler takes
\* over with 'user' bound to the last user.
SweepFinish ==
    /\ sweep.pc = "finish"
    /\ sweep' = IF svc = "gmail" /\ sweep.kind = "enterprise"
                THEN [sweep EXCEPT !.pc = "w_failed", !.at = "finish"]
                ELSE SweepReturns(sweep, "T")
    /\ UNCHANGED <<svc, syncState, faults>>
    /\ UNCHANGED sweepFrame
    /\ UNCHANGED batchVars

\* A collaborator raises inside the user's body: 'user' is bound and the
\* handler goes on to write FAILED.
SweepFail ==
    /\ sweep.pc \in {"set_running", "service", "content", "batches", "w_completed"}
    /\ MayFail /\ faults' = faults + 1
    /\ sweep' = [sweep EXCEPT !.pc = "w_failed", !.at = sweep.pc]
    /\ UNCHANGED <<svc, syncState>>
    /\ UNCHANGED sweepFrame
    /\ UNCHANGED batchVars

\* A collaborator raises before 'user' is assigned: the handlers that test
\* 'user' in locals() return False; the Drive individual handler reads the
\* unbound local and raises.
SweepFailEarly ==
    /\ sweep.pc \in {"begin", "users"}
    /\ MayFail /\ faults' = faults + 1
    /\ sweep' = SweepReturns(sweep, IF svc = "drive" /\ sweep.kind = "individual"
                                    THEN "raised" ELSE "F")
    /\ UNCHANGED <<svc, syncState>>
    /\ UNCHANGED sweepFrame
    /\ UNCHANGED batchVars

\* The handler: update_user_sync_state(FAILED); return False.
SweepFailedWrite ==
    /\ sweep.pc = "w_failed"
    /\ syncState' = MarkFailed(syncState, sweep.u)
    /\ sweep' = SweepReturns(sweep, "F")
    /\ UNCHANGED <<svc, faults>>
    /\ UNCHANGED sweepFrame
    /\ UNCHANGED batchVars

\* The handler's write raises in its turn: the exception leaves the run.
SweepFailedWriteRaises ==
    /\ sweep.pc = "w_failed"
    /\ sweep' = SweepReturns(sweep, "raised")
    /\ UNCHANGED <<svc, syncState, faults>>
    /\ UNCHANGED sweepFrame
    /\ UNCHANGED batchVars

\* A controller about to run perform_initial_sync over mailboxes with or
\* without threads.
InitSweep ==
    /\ svc \in Services
    /\ sweep \in {[pc |-> "begin", kind |-> k, u |-> 0, threads |-> th, at |-> "-", res |-> "-"] :
                    k \in Kinds, th \in [Users -> 0..1]}
    /\ syncState = [u \in Users |-> "NOT_STARTED"]
    /\ malformed = 0
    /\ driveState = [d \in Drives |-> "NOT_STARTED"]
    /\ stopRequested = FALSE
    /\ syncLock = 0
    /\ syncTask = 0
    /\ tasks = [t \in Slots |-> IdleTask]
    /\ ctl = Idle
    /\ ret = Returned("none", "-", "-")
    /\ store = {}
    /\ driveData = [d \in Drives |-> {}]
    /\ emitted = {}
    /\ calls = 0
    /\ faults = 0
    /\ boot = NotBooting
    /\ known = {}
    /\ orgExists = FALSE
    /\ watch = NoWatch
    /\ db = EmptyDb
    /\ run = NoRun
    /\ last = NoneReturned
    /\ outcome = NoOutcome
    /\ nruns = 0

NextSweep ==
    \/ SweepBegin \/ SweepUsers \/ SweepSetRunning
    \/ SweepService \/ SweepNoService
    \/ SweepList \/ SweepWorkers \/ SweepBatches \/ SweepCompleted \/ SweepFinish
    \/ SweepFail \/ SweepFailEarly \/ SweepFailedWrite \/ SweepFailedWriteRaises

SpecSweep == InitSweep /\ [][NextSweep]_vars

\* ------------------------------------------------------------- properties
\* The run was paused: pause returned True and the user's state is PAUSED.
PausedRun == syncState[Me] = "PAUSED" /\ ret = Returned("pause", "T", "paused")

\* The batches of the run, over all drives.
BatchStarts(s, d) ==
    {x \in Items : x >= First(s, d) /\ x <= Last(s, d) /\ (x - First(s, d)) % BatchSize = 0}

Batches ==
    UNION {{Batch(svc, d, i) : i \in BatchStarts(svc, d)} :
           d \in (IF svc = "gmail" THEN {0} ELSE Drives)}

\* The threads / files materialized in the store.
Present == {x \in Items : <<Ops(svc)[1], x>> \in store}

\* All the rows of item x are in the store / none of them is.
AllRows(st, x) == \A k \in 1..Len(Ops(svc)) : <<Ops(svc)[k], x>> \in st
NoRows(st, x) == \A k \in 1..Len(Ops(svc)) : <<Ops(svc)[k], x>> \notin st

\* The pcs of a task inside a batch: from the start of its transform to the
\* end of its transaction.
InBatch == {"pb_transform", "pb_txn"}

\* C1: every change of a user's persisted syncState is one of the allowed
\* transitions: NOT_STARTED/PAUSED/COMPLETED/FAILED/STOPPED to RUNNING (start,
\* resume), RUNNING to PAUSED (pause), RUNNING to COMPLETED or FAILED (the sync
\* task), anything to STOPPED (stop); no other change is ever written.
C1_LegalTransitions ==
    [][\A u \in Users :
          syncState'[u] # syncState[u] =>
             \/ syncState'[u] = "STOPPED"
             \/ syncState'[u] = "RUNNING" /\ CurrentState(u) # "RUNNING"
             \/ CurrentState(u) = "RUNNING" /\ syncState'[u] \in {"PAUSED", "COMPLETED", "FAILED"}]_vars

\* C2: a start that reads a user whose persisted state is RUNNING or PAUSED
\* (Gmail: the controller's user; Drive: any user of the organisation, in
\* turn) returns False and creates no sync task.
C2_StartRejected ==
    [][(StartRead /\ CurrentState(CtlUser) \in {"RUNNING", "PAUSED"}) =>
          /\ ret' = Returned("start", "F", "rejected")
          /\ ctl' = Idle
          /\ syncTask' = syncTask
          /\ \A t \in Slots : tasks'[t].status = "live" => tasks[t] = tasks'[t]]_vars

\* C2 witness: Drive's start was rejected because of another user of the
\* organisation, the controller's own user being neither RUNNING nor PAUSED.
C2_Witness ==
    /\ svc = "drive"
    /\ ret = Returned("start", "F", "rejected")
    /\ CurrentState(Me) \notin {"RUNNING", "PAUSED"}
    /\ \E u \in Users : CurrentState(u) \in {"RUNNING", "PAUSED"}

\* C3: a resume that reads a user whose persisted state (a row exists) is
\* anything but PAUSED returns False, launches no sync task and writes no
\* state.
C3_ResumeRejected ==
    [][(ResumeRead /\ syncState[CtlUser] \in SyncStates \ {"PAUSED"}) =>
          /\ ret' = Returned("resume", "F", "rejected")
          /\ ctl' = Idle
          /\ tasks' = tasks
          /\ syncTask' = syncTask
          /\ syncState' = syncState]_vars

\* C3 witness: resume was rejected for a user that is COMPLETED.
C3_Witness ==
    /\ ret = Returned("resume", "F", "rejected")
    /\ \E u \in Users : syncState[u] = "COMPLETED"

\* C4: when stop returns True the user's persisted syncState is STOPPED.
C4_StopLeavesStopped ==
    [][StopDone => syncState'[Me] = "STOPPED"]_vars

\* C5: a sync task that has observed the stop flag at one of its stop checks
\* processes no further batch.
C5_NoBatchAfterStopObserved ==
    \A t \in Slots :
        (Live(t) /\ tasks[t].sawStop) =>
            tasks[t].pc \notin {"assemble", "pb_lock", "pb_transform", "pb_txn", "emit"}

\* C6: pause never interrupts a batch: when pause cancels the sync task, the
\* task is not between the start of its transform and the end of its
\* transaction.
C6_PauseKeepsBatchWhole ==
    [][PauseCancel => ~(HasLiveTask /\ tasks[syncTask].pc \in InBatch)]_vars

C8_EmittedAfterCommit ==
    \A k \in emitted : <<"records", k>> \in store

C10_NoUserRunningAfterInitialize ==
    (boot.pc = "returned" /\ boot.val = "T") =>
        \A u \in Users : syncState[u] # "RUNNING"

\* C11: processing a batch again, right after the process_batch call on the
\* same batch returned True, changes nothing: no row is built, no key is
\* allocated, no transaction is begun, and the store stays as it was.
C11_SecondRunChangesNothing ==
    [][BatchBuild(last.batch) =>
          /\ db' = db
          /\ run' = NoRun
          /\ last' = [last EXCEPT !.times = @ + 1]]_vars

\* C11 witness: a batch that created vertices has been processed twice in a
\* row.
C11_Witness ==
    /\ last.times = 2
    /\ db.records # {}
    /\ db.recordRelations # {}

\* C12: no two vertices of the mails, of the attachments or of the files
\* collection carry the same external id.
C12_ExternalIdsUnique ==
    /\ \A r1, r2 \in db.mails : r1.ext = r2.ext => r1.key = r2.key
    /\ \A r1, r2 \in db.attachments : r1.ext = r2.ext => r1.key = r2.key
    /\ \A r1, r2 \in db.files : r1.ext = r2.ext => r1.key = r2.key

\* The records vertices that mirror a row: same key, the given recordType.
MirrorsOf(r, type) == {x \in db.records : x.key = r.key /\ x.recordType = type}

\* C13: every mails, attachments and files vertex has exactly one records
\* vertex with its key, of recordType MESSAGE, ATTACHMENT and FILE
\* respectively, and there are as many records of each type as vertices in the
\* mirrored collection.
C13_RecordMirroring ==
    /\ \A r \in db.mails \cup db.attachments \cup db.files :
          Cardinality({x \in db.records : x.key = r.key}) = 1
    /\ \A r \in db.mails : Cardinality(MirrorsOf(r, "MESSAGE")) = 1
    /\ \A r \in db.attachments : Cardinality(MirrorsOf(r, "ATTACHMENT")) = 1
    /\ \A r \in db.files : Cardinality(MirrorsOf(r, "FILE")) = 1
    /\ Cardinality({x \in db.records : x.recordType = "MESSAGE"}) = Cardinality(db.mails)
    /\ Cardinality({x \in db.records : x.recordType = "ATTACHMENT"}) = Cardinality(db.attachments)
    /\ Cardinality({x \in db.records : x.recordType = "FILE"}) = Cardinality(db.files)

\* The mails vertices of thread th.
ThreadMails(th) == {r \in db.mails : r.threadId = th}

\* The SIBLING edges that come in to the record of mails vertex r.
SiblingsInto(r) ==
    {e \in db.recordRelations : e.relationType = "SIBLING" /\ e.to = <<"records", r.key>>}

\* The mails vertices of r's thread that are dated before r.
EarlierThan(r) == {x \in ThreadMails(r.threadId) : x.internalDate < r.internalDate}

\* x is the message of r's thread dated immediately before r.
ImmediatePredecessor(x, r) ==
    /\ x \in EarlierThan(r)
    /\ \A y \in EarlierThan(r) : y.internalDate <= x.internalDate

\* No message is stored twice.
EachMessageStoredOnce == \A r1, r2 \in db.mails : r1.ext = r2.ext => r1.key = r2.key

\* C14: in a store where every message is stored once, every message of a
\* thread except the earliest has exactly one incoming SIBLING edge, and it
\* comes from the record of the message dated immediately before it.
C14_ThreadChain ==
    EachMessageStoredOnce =>
        \A r \in db.mails :
            IF EarlierThan(r) = {}
            THEN SiblingsInto(r) = {}
            ELSE /\ Cardinality(SiblingsInto(r)) = 1
                 /\ \A e \in SiblingsInto(r) :
                       \E x \in db.mails : ImmediatePredecessor(x, r) /\ e.from = <<"records", x.key>>

\* The recordRelations edges, of whatever relationType, that come in to the
\* record of attachments vertex a.
EdgesInto(a) == {e \in db.recordRelations : e.to = <<"records", a.key>>}

\* The mails vertices of the message that owns attachment a.
OwnersOf(a) == {m \in db.mails : m.ext = a.messageId}

\* C15: every attachments vertex has exactly one incoming recordRelations
\* edge, and it comes from the record of its owning message.
C15_AttachmentLinked ==
    \A a \in db.attachments :
        /\ Cardinality(EdgesInto(a)) = 1
        /\ \A e \in EdgesInto(a) : \E m \in OwnersOf(a) : e.from = <<"records", m.key>>

\* The principals named in the permission of message m for which
\* get_entity_id_by_email finds an entity.
NamedIn(m) == {e \in {HeadersOf(m)[i] : i \in 1..Len(HeadersOf(m))} : EntityId(e) # NoEntity}

\* A HAS_ACCESS edge to target whose source is the users vertex of e if e is a
\* user, else its groups vertex if it is a group, else its people vertex, which
\* then is in the store.
Granted(e, target) ==
    /\ \E p \in db.permissions :
          /\ p.relationType = "HAS_ACCESS"
          /\ p.from = <<EntityType(EntityId(e)), EntityId(e)>>
          /\ p.to = target
    /\ EntityType(EntityId(e)) = "people" => EntityId(e) \in db.people

\* Every principal of a stored message holds a grant on the message.
MessagePrincipalsGranted ==
    \A m \in db.mails : \A e \in NamedIn(m.ext) : Granted(e, <<"messages", m.key>>)

\* C16: in a store where every message is stored once, every principal named
\* in a permission that has an entity id holds a HAS_ACCESS edge from its
\* users, groups or people vertex, on the message and on each attachment of it.
C16_PrincipalsResolved ==
    EachMessageStoredOnce =>
        /\ MessagePrincipalsGranted
        /\ \A a \in db.attachments :
              \A e \in NamedIn(a.messageId) : Granted(e, <<"attachments", a.key>>)

\* The vertex <<collection, id>> exists as a principal: a user, a group, or a
\* people vertex of the store.
PrincipalExists(v) ==
    \/ v[1] = "users" /\ InUsers(v[2])
    \/ v[1] = "groups" /\ InGroups(v[2])
    \/ v[1] = "people" /\ v[2] \in db.people

\* The vertex <<collection, key>> is a records vertex of the store.
RecordExists(v) == v[1] = "records" /\ \E r \in db.records : r.key = v[2]

\* C17: every permissions edge goes from an existing users, groups or people
\* vertex to an existing records vertex.
C17_PermissionEndpointsExist ==
    \A p \in db.permissions : PrincipalExists(p.from) /\ RecordExists(p.to)

\* C18: perform_initial_sync never ends by raising: every sync task that is
\* done returned a boolean.
C18_NoExceptionEscapes ==
    \A t \in Slots : tasks[t].status = "done" => tasks[t].result \in {"T", "F"}

\* C19: every call of start, pause, resume or stop returns: a control call
\* that holds the transition lock gives it back.
C19_EveryCallReturns == (ctl # Idle) ~> (ctl = Idle)

\* C20: when a call inside process_batch fails, the step leaves the sync
\* states and the emitted envelopes as they were, the task stays alive, and it
\* stands at the head of the following batch (or past the end of the loop),
\* not at the envelopes of the failed one.
C20_FailedBatchSkipped ==
    [][\A t \in Slots :
          TaskBatchFail(t) =>
             /\ syncState' = syncState
             /\ emitted' = emitted
             /\ tasks'[t].status = tasks[t].status
             /\ tasks'[t].txn # "open"
             /\ \/ tasks'[t].pc \in {"assemble", "ss_batch"} /\ tasks'[t].i = tasks[t].i + BatchSize
                \/ tasks'[t].pc \in {"w_completed", "drive_done"}]_vars

\* C20 witness: the transaction of the first batch was aborted, nothing was
\* emitted, the user is RUNNING and the task is about to assemble the next
\* batch.
C20_Witness ==
    \E t \in Slots :
        /\ Live(t)
        /\ tasks[t].txn = "aborted"
        /\ tasks[t].pc = "assemble"
        /\ tasks[t].i = 1 + BatchSize
        /\ syncState[Me] = "RUNNING"
        /\ emitted = {}

\* C21: a run in which no collaborator failed has returned True, and every
\* user it visited is COMPLETED.
C21_SuccessCompletes ==
    (sweep.pc = "returned" /\ faults = 0) =>
        /\ sweep.res = "T"
        /\ \A u \in 1..RunUsers(sweep.kind) : syncState[u] = "COMPLETED"

\* C22: when the handler of an error ends the run with result False, the user
\* that was being processed when the error was raised has become FAILED and
\* no other user's state has changed (none at all when the error was raised
\* after the user loop).
C22_ErrorMarksFailed ==
    [][(sweep.pc = "w_failed" /\ sweep'.pc = "returned" /\ sweep'.res = "F") =>
          syncState' = IF sweep.at = "finish" THEN syncState
                       ELSE [syncState EXCEPT ![sweep.u] = "FAILED"]]_vars

\* C23: while the last control call that returned is a stop that returned
\* True and no control call is in progress, no step commits a batch, emits an
\* envelope or writes a syncState.
C23_NothingAfterStop ==
    [][(ret.op = "stop" /\ ret.val = "T" /\ ctl = Idle /\ ctl' = Idle) =>
          /\ store' = store
          /\ emitted' = emitted
          /\ syncState' = syncState]_vars

\* C24: with no collaborator failure, once no sync task is alive every item
\* that a batch committed to the store has had its envelope emitted.
C24_CommittedBatchesEmitted ==
    (faults = 0 /\ \A t \in Slots : ~Live(t)) =>
        \A x \in Items : <<Ops(svc)[1], x>> \in store => EnvelopeId(svc, x) \in emitted

\* C25: with no collaborator failure, once no sync task is alive no drive is
\* left RUNNING: a drive whose processing was interrupted is PAUSED and a
\* drive whose batches were all processed is COMPLETED.
C25_InterruptedDriveIsPaused ==
    (svc = "drive" /\ faults = 0 /\ \A t \in Slots : ~Live(t)) =>
        \A d \in Drives : driveState[d] # "RUNNING"

\* C26: once no sync task is alive, the rows written for a drive by
\* process_drive_data are in the store all together or not at all.
C26_DriveDataAllOrNothing ==
    (\A t \in Slots : ~Live(t)) =>
        \A d \in Drives : driveData[d] = {} \/ driveData[d] = {DriveOps[k] : k \in 1..Len(DriveOps)}

\* C27: an envelope is sent only for a record that the batch has newly
\* created: a task that sends an envelope has committed a transaction.
C27_EnvelopeOnlyForNewRecord ==
    [][\A t \in Slots : TaskEmit(t) => tasks[t].txn = "committed"]_vars

\* C28: after a first batch of two threads that carry the same user-wide
\* permission list, the store holds one HAS_ACCESS edge per principal and
\* record (the role is 'reader' on every edge): no edge is there twice.
C28_OneEdgePerGrant ==
    (nruns = 1 /\ last.batch \in TwoThreadBatches) =>
        \A e \in db.permissions :
            \A f \in db.permissions :
                (e.from = f.from /\ e.to = f.to /\ e.relationType = f.relationType) => e = f

\* C29: every PARENT_CHILD edge of the store goes from the record of a
\* file p to the record of a file f that lists p among its parents.
C29_ParentEdgesJoinListedPairs ==
    \A e \in db.recordRelations :
        e.relationType = "PARENT_CHILD" =>
            \E fp \in db.files :
                \E fc \in db.files :
                    /\ e.from = <<"records", fp.key>>
                    /\ e.to = <<"records", fc.key>>
                    /\ \E k \in 1..Len(ParentsOf(fc.ext)) : ParentsOf(fc.ext)[k] = fp.ext

\* The messages of thread th listed in the batch process_batch handled last.
ListedLast(th) ==
    UNION {Range(last.batch.threads[k].messages) :
             k \in {x \in 1..Len(last.batch.threads) : last.batch.threads[x].thread = th}}

\* C30: among the stored messages of a thread, all of them listed in the
\* batch handled last, exactly one has isParent = true, and no message of the
\* thread has a smaller internalDate than it.
C30_OneParentPerThread ==
    \A th \in {r.threadId : r \in db.mails} :
        (\A r \in db.mails : r.threadId = th => r.ext \in ListedLast(th)) =>
            \E p \in {r \in db.mails : r.threadId = th} :
                /\ p.isParent
                /\ \A r \in db.mails :
                       r.threadId = th => /\ (r.isParent => r = p)
                                          /\ p.internalDate <= r.internalDate

\* C31: a provider call that fails while a task assembles or fetches a batch
\* makes the task skip that batch only: it goes on with the next batch of the
\* same user and drive.
C31_ProviderErrorSkipsBatch ==
    [][\A t \in Slots :
          (Live(t) /\ tasks[t].pc = "assemble" /\ faults' = faults + 1 /\ tasks'[t] # tasks[t])
              => tasks'[t] = NextBatch(tasks[t])]_vars

\* C32: a process_batch call that began a transaction and meets no store
\* failure returns True with every file of the batch that has an id in the
\* store.
C32_MalformedSkippedAlone ==
    [][(run.pc = "txn" /\ run'.pc = "idle" /\ faults' = faults) =>
          /\ outcome'.val = "T"
          /\ \A i \in 1..Len(run.batch.files) :
                run.batch.files[i] # 0 => KeyIn(db'.files, run.batch.files[i]) # NoKey]_vars

\* C33: a resume call that finds no syncStates row goes on to return, and
\* when it returns True the user is RUNNING and a sync task has been created.
C33_ResumeWithoutRowStarts ==
    (ctl.op = "resume" /\ ctl.pc = "nested") ~>
        (/\ ctl = Idle
         /\ ret.op = "resume"
         /\ ret.val = "T" => (syncState[Me] = "RUNNING" /\ syncTask # 0))

\* C34: an initialize call that found the organizations vertex already there
\* and meets no failure does not return False from the user-to-organization
\* relations.
C34_InitializeAgainSucceeds ==
    [][(boot.pc = "relations" /\ ~boot.bound /\ faults' = faults /\ boot'.pc = "returned")
          => boot'.val = "T"]_vars

C36_NoUserLeftRunning ==
    (sweep.pc = "returned" /\ sweep.res \in {"T", "F"} /\ faults = 0) =>
        \A u \in 1..sweep.u : syncState[u] # "RUNNING"

\* C37: when no process_batch call is in flight, the transaction the last
\* call began has been committed or aborted.
C37_NoTransactionLeftOpen ==
    run.pc = "idle" => outcome.txn # "open"

\* C38: at most one sync task of the controller is alive at any time.
C38_OneLiveTask ==
    Cardinality({t \in Slots : Live(t)}) <= 1

\* C39: a pause call that has found no user RUNNING (the stop flag is still
\* down when it reads its last user, who is not RUNNING either) returns False.
C39_PauseWithoutRunningRejected ==
    [][(/\ PauseRead
        /\ ~stopRequested
        /\ CurrentState(CtlUser) # "RUNNING"
        /\ ctl' = Idle)
          => ret' = Returned("pause", "F", "rejected")]_vars

\* C40: when a step of start or resume creates the sync task and returns
\* True, the stop flag is down.
C40_LaunchedWithFlagDown ==
    [][((StartRead \/ StartWrite \/ ResumeRead \/ ResumeWrite)
           /\ ctl' = Idle /\ ret'.val = "T")
          => ~stopRequested']_vars

=============================================================================
